---- MODULE Spec2Model ----
(***************************************************************************)
(* Pairs-trading backtester: spread construction, signal generation,       *)
(* backtest simulation, performance metrics and the grid-search engine.    *)
(*                                                                         *)
(* Numbers.  The code computes in IEEE doubles.  The model computes in     *)
(* exact arithmetic over three kinds of value, each with the special       *)
(* values the code can produce:                                            *)
(*   - a float is a rational n/d (d > 0, lowest terms), +inf, -inf or NaN; *)
(*   - a surd is s * sqrt(n/d) with s in {-1,0,1}, or NaN: the shape of    *)
(*     every value the code obtains by dividing by a standard deviation    *)
(*     (the z-score, the Sharpe ratio) or as a standard deviation;         *)
(*   - a signal is an integer in {-1,0,1}.                                 *)
(* Rounding error of the doubles is not modelled.                          *)
(*                                                                         *)
(* Tables.  A DataFrame is [cols, len, index, data]: the set of column     *)
(* names, the number of rows, the row labels in row order and, per column, *)
(* the sequence of its values.                                             *)
(***************************************************************************)
EXTENDS Integers, Sequences, FiniteSets, TLC

VARIABLES
  pc,        \* where the caller is
  df,        \* the table the caller passes
  lookback,  \* argument of prepare_spread
  entry_z,   \* argument of generate_trade_signals
  exit_z,    \* argument of generate_trade_signals
  pad,       \* whether the installed pandas pads NaN in pct_change
  ret,       \* the value the last call returned
  cfg,       \* the GridSearchConfig passed to grid_search
  idx,       \* grid_search: position of the loop in param_combinations
  records,   \* the records a loop has collected so far
  local,     \* local variables of the running call that the result does not show
  train_fraction,  \* argument of walk_forward_validation
  n_periods,       \* argument of robustness_analysis
  cost_bps_range,  \* argument of transaction_cost_analysis
  results_df,      \* argument results of identify_stable_regions
  top_n,           \* argument of identify_stable_regions
  tolerance        \* argument of identify_stable_regions

vars == <<pc, df, lookback, entry_z, exit_z, pad, ret, cfg, idx, records, local,
          train_fraction, n_periods, cost_bps_range, results_df, top_n, tolerance>>

\* What a call leaves alone: its arguments and the installed pandas.
args == <<df, lookback, entry_z, exit_z, pad, cfg, train_fraction, n_periods, cost_bps_range,
          results_df, top_n, tolerance>>

(***************************************************************************)
(* Bounds of the model.                                                    *)
(***************************************************************************)
MaxRows == 4
MaxBtRows == 3
MaxPriceRows == 4
MaxGridRows == 6
MaxWfRows == 6
MaxCostRows == 5
MaxMetricRows == 3

----------------------------------------------------------------------------
(***************************************************************************)
(* Integers and rationals.                                                 *)
(***************************************************************************)
Abs(i) == IF i < 0 THEN -i ELSE i

Sign(i) == IF i < 0 THEN -1 ELSE IF i = 0 THEN 0 ELSE 1

RECURSIVE Gcd(_, _)
Gcd(a, b) == IF b = 0 THEN a ELSE Gcd(b, a % b)

\* The rational n/d in lowest terms with a positive denominator (d # 0).
Q(n, d) ==
  LET g == Gcd(Abs(n), Abs(d))
      s == IF d < 0 THEN -1 ELSE 1
  IN  [k |-> "fin", n |-> (s * n) \div g, d |-> Abs(d) \div g]

NaN == [k |-> "nan", n |-> 0, d |-> 1]
PInf == [k |-> "inf", n |-> 1, d |-> 1]
NInf == [k |-> "inf", n |-> -1, d |-> 1]
Zero == Q(0, 1)

IsNaN(x) == x.k = "nan"
IsFin(x) == x.k = "fin"
IsInf(x) == x.k = "inf"

\* The product of two rationals, with the common factors taken out first.
QMul(x, y) ==
  LET g1 == Gcd(Abs(x.n), y.d)
      g2 == Gcd(Abs(y.n), x.d)
  IN  Q((x.n \div g1) * (y.n \div g2), (x.d \div g2) * (y.d \div g1))

\* The sum of two rationals over the least common denominator.
QAdd(x, y) ==
  LET g == Gcd(x.d, y.d)
  IN  Q(x.n * (y.d \div g) + y.n * (x.d \div g), (x.d \div g) * y.d)

\* IEEE multiplication of two floats.
FMul(x, y) ==
  IF IsNaN(x) \/ IsNaN(y) THEN NaN
  ELSE IF IsFin(x) /\ IsFin(y) THEN QMul(x, y)
  ELSE IF x.n = 0 \/ y.n = 0 THEN NaN
  ELSE IF Sign(x.n) * Sign(y.n) > 0 THEN PInf ELSE NInf

\* IEEE addition of two floats.
FAdd(x, y) ==
  IF IsNaN(x) \/ IsNaN(y) THEN NaN
  ELSE IF IsFin(x) /\ IsFin(y) THEN QAdd(x, y)
  ELSE IF IsInf(x) /\ IsInf(y) THEN (IF x.n = y.n THEN x ELSE NaN)
  ELSE IF IsInf(x) THEN x ELSE y

FNeg(x) == IF IsNaN(x) THEN NaN ELSE [x EXCEPT !.n = -x.n]

FSub(x, y) == FAdd(x, FNeg(y))

\* IEEE division of two floats (x/0 is an infinity, 0/0 is NaN).
FDiv(x, y) ==
  IF IsNaN(x) \/ IsNaN(y) THEN NaN
  ELSE IF IsInf(x) /\ IsInf(y) THEN NaN
  ELSE IF IsInf(x) THEN (IF Sign(x.n) * (IF y.n < 0 THEN -1 ELSE 1) > 0 THEN PInf ELSE NInf)
  ELSE IF IsInf(y) THEN Zero
  ELSE IF y.n = 0 THEN (IF x.n = 0 THEN NaN ELSE IF x.n > 0 THEN PInf ELSE NInf)
  ELSE QMul(x, Q(y.d, y.n))

\* x < y and x = y on floats; every comparison with NaN is false.
FLt(x, y) ==
  /\ ~IsNaN(x) /\ ~IsNaN(y)
  /\ IF IsFin(x) /\ IsFin(y)
       THEN x.n * (y.d \div Gcd(x.d, y.d)) < y.n * (x.d \div Gcd(x.d, y.d))
     ELSE IF IsInf(x) /\ IsInf(y) THEN x.n < y.n
     ELSE IF IsInf(x) THEN x.n < 0 ELSE y.n > 0

FEq(x, y) == ~IsNaN(x) /\ ~IsNaN(y) /\ x = y

FLe(x, y) == FLt(x, y) \/ FEq(x, y)

----------------------------------------------------------------------------
(***************************************************************************)
(* Surds: s * sqrt(n/d), s in {-1,0,1}, n/d a non-negative rational in     *)
(* lowest terms (n = 0 iff s = 0), or NaN.                                 *)
(***************************************************************************)
SNaN == [k |-> "nan", s |-> 0, n |-> 0, d |-> 1]

\* +infinity (s = 1) or -infinity (s = -1) where a surd is expected.
SInf(s) == [k |-> "inf", s |-> s, n |-> 1, d |-> 1]

\* s * sqrt(n/d) for n >= 0, d > 0.
Surd(s, n, d) ==
  IF s = 0 \/ n = 0 THEN [k |-> "fin", s |-> 0, n |-> 0, d |-> 1]
  ELSE LET g == Gcd(n, d) IN [k |-> "fin", s |-> s, n |-> n \div g, d |-> d \div g]

\* The surd equal to the integer i.
SInt(i) == Surd(Sign(i), i * i, 1)

SAbs(z) == IF IsNaN(z) THEN z ELSE [z EXCEPT !.s = Abs(z.s)]

SNeg(z) == IF IsNaN(z) THEN z ELSE [z EXCEPT !.s = -z.s]

\* z > q for a surd z and a finite rational q (false when z is NaN).
SGt(z, q) ==
  /\ ~IsNaN(z)
  /\ IF q.n < 0
       THEN z.s >= 0 \/ FLt(Q(z.n, z.d), QMul(q, q))
       ELSE z.s > 0 /\ FLt(QMul(q, q), Q(z.n, z.d))

\* z < q for a surd z and a finite rational q (false when z is NaN).
SLt(z, q) == SGt(SNeg(z), FNeg(q))

\* z <= q for a surd z and a finite rational q (false when z is NaN).
SLe(z, q) == ~IsNaN(z) /\ ~SGt(z, q)

\* The signed square of a surd: a double that orders as the surd does.
SignedSquare(z) ==
  IF IsNaN(z) THEN NaN
  ELSE IF IsInf(z) THEN (IF z.s > 0 THEN PInf ELSE NInf)
  ELSE Q(z.s * z.n, z.d)

\* a < b on surds (false when either is NaN).
SurdLt(a, b) == FLt(SignedSquare(a), SignedSquare(b))

----------------------------------------------------------------------------
(***************************************************************************)
(* DataFrames.                                                             *)
(***************************************************************************)
RECURSIVE SeqsUpTo(_, _)
SeqsUpTo(S, n) ==
  IF n = 0 THEN {<<>>}
  ELSE LET shorter == SeqsUpTo(S, n - 1)
       IN  shorter \cup {Append(s, x) : s \in {t \in shorter : Len(t) = n - 1}, x \in S}

\* A table of one column.
Frame1(c, xs) ==
  [cols  |-> {c},
   len   |-> Len(xs),
   index |-> [t \in 1..Len(xs) |-> t],
   data  |-> [x \in {c} |-> xs]]

\* df[c] = xs: the table with column c added or replaced.
WithColumn(t, c, xs) ==
  [cols  |-> t.cols \cup {c},
   len   |-> t.len,
   index |-> t.index,
   data  |-> [x \in t.cols \cup {c} |-> IF x = c THEN xs ELSE t.data[x]]]

\* df.drop(columns=[c])
DropColumn(t, c) ==
  [cols  |-> t.cols \ {c},
   len   |-> t.len,
   index |-> t.index,
   data  |-> [x \in t.cols \ {c} |-> t.data[x]]]

\* The rows of t at the positions keep (ascending), in that order.
TakeRows(t, keep) ==
  [cols  |-> t.cols,
   len   |-> Len(keep),
   index |-> [i \in 1..Len(keep) |-> t.index[keep[i]]],
   data  |-> [x \in t.cols |-> [i \in 1..Len(keep) |-> t.data[x][keep[i]]]]]

\* The one element of a singleton set.  {F(x) : x \in {e}} evaluates e once
\* and names its value x, so The({F(x) : x \in {e}}) is F applied to e.
The(S) == CHOOSE x \in S : TRUE

\* The positions at which the boolean series mask is true, ascending.
Positions(mask) ==
  The({[k \in 1..Cardinality(S) |-> CHOOSE j \in S : Cardinality({m \in S : m <= j}) = k] :
         S \in {{j \in 1..Len(mask) : mask[j]}}})

\* df.empty: no rows or no columns.
Empty(t) == t.len = 0 \/ t.cols = {}

\* A raised exception, as the value of a call.
Raise(e) == [err |-> e]
ValueError == Raise("ValueError")
Raised(v) == "err" \in DOMAIN v

Nil == [nil |-> TRUE]

----------------------------------------------------------------------------
(***************************************************************************)
(* preprocess.py: prepare_spread                                           *)
(***************************************************************************)
\* xs[i] + ... + xs[j] as doubles.
RECURSIVE SumRange(_, _, _)
SumRange(xs, i, j) == IF i > j THEN Zero ELSE FAdd(SumRange(xs, i, j - 1), xs[j])

\* The product of two series, row by row.
Times(xs, ys) == [t \in 1..Len(xs) |-> FMul(xs[t], ys[t])]

\* Whether the window of L rows ending at row t is complete and holds no NaN
\* (rolling(window=L) has min_periods = L).
FullWindow(xs, t, L) == t >= L /\ \A i \in (t - L + 1)..t : ~IsNaN(xs[i])

\* Series.rolling(window=L).mean()
RollingMean(xs, L) ==
  [t \in 1..Len(xs) |->
     IF FullWindow(xs, t, L) THEN FDiv(SumRange(xs, t - L + 1, t), Q(L, 1)) ELSE NaN]

\* Series.rolling(window=L).cov(other), with ddof = 1: undefined for L = 1.
RollingCov(xs, ys, L) ==
  The({[t \in 1..Len(xs) |->
          IF FullWindow(xs, t, L) /\ FullWindow(ys, t, L) /\ L > 1
            THEN FDiv(FSub(SumRange(xys, t - L + 1, t),
                           FDiv(FMul(SumRange(xs, t - L + 1, t),
                                     SumRange(ys, t - L + 1, t)),
                                Q(L, 1))),
                      Q(L - 1, 1))
            ELSE NaN] :
         xys \in {Times(xs, ys)}})

\* Series.rolling(window=L).var(), with ddof = 1: undefined for L = 1.
RollingVar(xs, L) == RollingCov(xs, xs, L)

\* The square root of a non-negative double, as a surd.
Sqrt(x) == IF IsFin(x) /\ x.n >= 0 THEN Surd(1, x.n, x.d) ELSE SNaN

\* Series.rolling(window=L).std()
RollingStd(xs, L) ==
  The({[t \in 1..Len(xs) |-> Sqrt(var[t])] : var \in {RollingVar(xs, L)}})

\* cov / var, row by row.
Beta(cov, var) == [t \in 1..Len(cov) |-> FDiv(cov[t], var[t])]

\* Series.bfill(): every NaN takes the first value after it that is not NaN,
\* if any.
Bfill(xs) ==
  [t \in 1..Len(xs) |->
     IF \A j \in t..Len(xs) : IsNaN(xs[j]) THEN NaN
     ELSE xs[CHOOSE j \in t..Len(xs) : ~IsNaN(xs[j]) /\ \A m \in t..(j - 1) : IsNaN(xs[m])]]

\* df[a] - df["beta"] * df[b]
Spread(as, bs, beta) == [t \in 1..Len(as) |-> FSub(as[t], FMul(beta[t], bs[t]))]

\* x / s for a double x and a surd s: NaN when either is NaN.
DivBySurd(x, s) ==
  IF IsNaN(x) \/ IsNaN(s) THEN SNaN
  ELSE The({Surd(Sign(x.n) * s.s, square.n, square.d) :
              square \in {QMul(QMul(x, x), Q(s.d, s.n))}})

\* Series.replace(0, np.nan) on surds.
ZeroToNaN(ss) == [t \in 1..Len(ss) |-> IF ~IsNaN(ss[t]) /\ ss[t].s = 0 THEN SNaN ELSE ss[t]]

\* Series.fillna(0) on surds.
SFillNaN0(ss) == [t \in 1..Len(ss) |-> IF IsNaN(ss[t]) THEN Surd(0, 0, 1) ELSE ss[t]]

\* The z-score without its fillna(0): a row of zero spread_std keeps NaN.
ZScoreNoFill(spread, mean, std) ==
  The({[t \in 1..Len(spread) |-> DivBySurd(FSub(spread[t], mean[t]), divisor[t])] :
         divisor \in {ZeroToNaN(std)}})

\* ((spread - spread_mean) / spread_std.replace(0, np.nan)).fillna(0)
ZScore(spread, mean, std) ==
  The({SFillNaN0(ratio) :
         ratio \in {[t \in 1..Len(spread) |->
                       DivBySurd(FSub(spread[t], mean[t]), divisor[t])] :
           divisor \in {ZeroToNaN(std)}}})

\* The order of the columns of a price table.
ColumnOrder == <<"A", "B", "C">>

\* df.columns[i] (1-based) of a price table.
Column(t, i) ==
  The({ColumnOrder[present[i]] :
         present \in {Positions([j \in 1..Len(ColumnOrder) |-> ColumnOrder[j] \in t.cols])}})

\* df.dropna(subset=["spread_mean", "spread_std"])
DropWarmup(t) ==
  The({TakeRows(t, keep) :
         keep \in {Positions([i \in 1..t.len |-> /\ ~IsNaN(t.data["spread_mean"][i])
                                                  /\ ~IsNaN(t.data["spread_std"][i])])}})

prepare_spread(t, L) ==
  IF Cardinality(t.cols) # 2 THEN ValueError
  ELSE IF Empty(t) THEN t
  ELSE The({DropWarmup(d5) :
              d5 \in {WithColumn(d4, "zscore",
                                 ZScore(d4.data["spread"], d4.data["spread_mean"],
                                        d4.data["spread_std"])) :
                d4 \in {WithColumn(d3, "spread_std", RollingStd(d3.data["spread"], L)) :
                  d3 \in {WithColumn(d2, "spread_mean", RollingMean(d2.data["spread"], L)) :
                    d2 \in {WithColumn(d1, "spread",
                                       Spread(d1.data[Column(t, 1)], d1.data[Column(t, 2)],
                                              d1.data["beta"])) :
                      d1 \in {WithColumn(t, "beta", Bfill(beta)) :
                        beta \in {Beta(cov, var) :
                          cov \in {RollingCov(t.data[Column(t, 1)], t.data[Column(t, 2)], L)},
                          var \in {RollingVar(t.data[Column(t, 2)], L)}}}}}}}})

----------------------------------------------------------------------------
(***************************************************************************)
(* signals.py: generate_trade_signals                                      *)
(***************************************************************************)
\* out["signal"] = 0, then -1 where z > +entry_z, then +1 where z < -entry_z.
RawEntry(z, ez) ==
  [t \in 1..Len(z) |->
     IF SLt(z[t], FNeg(ez)) THEN 1 ELSE IF SGt(z[t], ez) THEN -1 ELSE 0]

NA == 2

\* .replace(0, pd.NA)
ReplaceZeroNA(s) == [t \in 1..Len(s) |-> IF s[t] = 0 THEN NA ELSE s[t]]

\* A fill from the rows after: every NA takes the first value after it that
\* is not NA, if any.
FillFromLater(s) ==
  [t \in 1..Len(s) |->
     IF \A j \in t..Len(s) : s[j] = NA THEN NA
     ELSE s[CHOOSE j \in t..Len(s) : s[j] # NA /\ \A m \in t..(j - 1) : s[m] = NA]]

\* .ffill(): every NA takes the last value before it that is not NA, if any.
Ffill(s) ==
  [t \in 1..Len(s) |->
     IF \A j \in 1..t : s[j] = NA THEN NA
     ELSE s[CHOOSE j \in 1..t : s[j] # NA /\ \A m \in (j + 1)..t : s[m] = NA]]

\* .fillna(0)
FillNA0(s) == [t \in 1..Len(s) |-> IF s[t] = NA THEN 0 ELSE s[t]]

\* out.loc[out[column].abs() <= exit_z, "signal"] = 0
ExitRowsToZero(s, z, xz) ==
  [t \in 1..Len(s) |-> IF SLe(SAbs(z[t]), xz) THEN 0 ELSE s[t]]

\* Mutant: the raw entry signal is not carried forward.
SignalColumnNoCarry(z, ez, xz) ==
  The({ExitRowsToZero(raw, z, xz) : raw \in {RawEntry(z, ez)}})

\* The signal column: raw entries, carried forward, then zeroed at exit rows.
SignalColumn(z, ez, xz) ==
  The({ExitRowsToZero(filled, z, xz) :
         filled \in {FillNA0(carried) :
           carried \in {Ffill(marked) :
             marked \in {ReplaceZeroNA(raw) :
               raw \in {RawEntry(z, ez)}}}}})

generate_trade_signals(t, ez, xz) ==
  IF "zscore" \notin t.cols THEN ValueError
  ELSE IF FLe(ez, xz) THEN ValueError
  ELSE IF Empty(t) THEN t
  ELSE The({WithColumn(t, "signal", signal) :
              signal \in {SignalColumn(t.data["zscore"], ez, xz)}})

----------------------------------------------------------------------------
(***************************************************************************)
(* Specification SpecSignals: generate_trade_signals on z-score tables.    *)
(***************************************************************************)
ZVals == {SNaN} \cup {SInt(i) : i \in {-3, -1, 0, 1, 2, 3}}

EntryZs == {Q(1, 1), Q(2, 1)}
ExitZs == {Q(1, 2), Q(1, 1)}

ZTables ==
  {Frame1("zscore", z) : z \in SeqsUpTo(ZVals, MaxRows)}
    \cup {Frame1("spread", <<Zero>>)}

InitSignals ==
  /\ pc = "start"
  /\ results_df = Nil /\ top_n = 0 /\ tolerance = Nil
  /\ df \in ZTables
  /\ lookback = 0
  /\ entry_z \in EntryZs
  /\ exit_z \in ExitZs
  /\ pad = TRUE
  /\ ret = Nil
  /\ cfg = Nil /\ idx = 0 /\ records = <<>> /\ local = Nil
  /\ train_fraction = Nil /\ n_periods = 0 /\ cost_bps_range = <<>>

CallGenerateTradeSignals ==
  /\ pc = "start"
  /\ pc' = "signals"
  /\ ret' = generate_trade_signals(df, entry_z, exit_z)
  /\ UNCHANGED <<args, idx, records, local>>

NextSignals == CallGenerateTradeSignals

SpecSignals == InitSignals /\ [][NextSignals]_vars

----------------------------------------------------------------------------
(***************************************************************************)
(* backtest.py: run_backtest                                               *)
(***************************************************************************)
\* Series.ffill() on floats: every NaN takes the last value before it that
\* is not NaN, if any.
FfillNaN(xs) ==
  [t \in 1..Len(xs) |->
     IF \A j \in 1..t : IsNaN(xs[j]) THEN NaN
     ELSE xs[CHOOSE j \in 1..t : ~IsNaN(xs[j]) /\ \A m \in (j + 1)..t : IsNaN(xs[m])]]

\* Series.pct_change(): data / data.shift(1) - 1, where data is the series
\* itself, or the series with its NaN padded forward when the installed
\* pandas still applies the default fill_method="pad".
PctChange(xs, padded) ==
  The({[t \in 1..Len(xs) |->
          IF t = 1 THEN NaN ELSE FSub(FDiv(data[t], data[t - 1]), Q(1, 1))] :
         data \in {IF padded THEN FfillNaN(xs) ELSE xs}})

\* Series.fillna(0) on floats.
FillNaN0(xs) == [t \in 1..Len(xs) |-> IF IsNaN(xs[t]) THEN Zero ELSE xs[t]]

\* Mutant: the signal is used unshifted.
ShiftedSignalSameDay(sig) == [t \in 1..Len(sig) |-> Q(sig[t], 1)]

\* out["signal"].shift(1).fillna(0): the previous row's signal, 0 at row 0.
ShiftedSignal(sig) ==
  [t \in 1..Len(sig) |-> IF t = 1 THEN Zero ELSE Q(sig[t - 1], 1)]

\* xs[1] + ... + xs[t], added left to right as doubles, a NaN counting as 0.
RECURSIVE RunningSum(_, _)
RunningSum(xs, t) ==
  IF t = 0 THEN Zero
  ELSE FAdd(RunningSum(xs, t - 1), IF IsNaN(xs[t]) THEN Zero ELSE xs[t])

\* Series.cumsum(): the running sum in which a NaN counts as 0, with NaN
\* put back at the rows that hold one.
CumSum(xs) ==
  [t \in 1..Len(xs) |-> IF IsNaN(xs[t]) THEN NaN ELSE RunningSum(xs, t)]

\* Mutant: the undefined first return is left undefined.
SpreadRetNoFill(xs, padded) == PctChange(xs, padded)

\* out["spread"].pct_change().fillna(0)
SpreadRet(xs, padded) == The({FillNaN0(change) : change \in {PctChange(xs, padded)}})

\* out["signal_shifted"] * out["spread_ret"]
Pnl(shifted, rets) == [t \in 1..Len(rets) |-> FMul(shifted[t], rets[t])]

\* A backtest that leaves the lagged signal in the signal column.
RunBacktestLagsSignal(t, padded) ==
  IF ~({"spread", "signal"} \subseteq t.cols) THEN ValueError
  ELSE IF Empty(t) THEN t
  ELSE The({WithColumn(DropColumn(out4, "signal_shifted"), "signal",
                       [k \in 1..t.len |-> IF k = 1 THEN 0 ELSE t.data["signal"][k - 1]]) :
              out4 \in {WithColumn(out3, "cum_pnl", CumSum(out3.data["pnl"])) :
                out3 \in {WithColumn(out2, "pnl", Pnl(out2.data["signal_shifted"],
                                                      out2.data["spread_ret"])) :
                  out2 \in {WithColumn(out1, "signal_shifted",
                                       ShiftedSignal(out1.data["signal"])) :
                    out1 \in {WithColumn(t, "spread_ret",
                                         SpreadRet(t.data["spread"], padded))}}}}})

run_backtest(t, padded) ==
  IF ~({"spread", "signal"} \subseteq t.cols) THEN ValueError
  ELSE IF Empty(t) THEN t
  ELSE The({DropColumn(out4, "signal_shifted") :
              out4 \in {WithColumn(out3, "cum_pnl", CumSum(out3.data["pnl"])) :
                out3 \in {WithColumn(out2, "pnl", Pnl(out2.data["signal_shifted"],
                                                      out2.data["spread_ret"])) :
                  out2 \in {WithColumn(out1, "signal_shifted",
                                       ShiftedSignal(out1.data["signal"])) :
                    out1 \in {WithColumn(t, "spread_ret",
                                         SpreadRet(t.data["spread"], padded))}}}}})

----------------------------------------------------------------------------
(***************************************************************************)
(* metrics.py: calculate_performance_metrics                               *)
(***************************************************************************)
\* xs[mask]: the values at the rows where mask is true.
Select(xs, mask) ==
  The({[i \in 1..Len(pos) |-> xs[pos[i]]] : pos \in {Positions(mask)}})

\* The values of xs that are not NaN (what the skipna reductions read).
Defined(xs) == Select(xs, [t \in 1..Len(xs) |-> ~IsNaN(xs[t])])

\* Series.sum(): the sum of the defined values, 0 when there is none.
Sum(xs) == The({SumRange(vals, 1, Len(vals)) : vals \in {Defined(xs)}})

\* Series.mean(): the mean of the defined values, NaN when there is none.
Mean(xs) ==
  The({IF Len(vals) = 0 THEN NaN
       ELSE FDiv(SumRange(vals, 1, Len(vals)), Q(Len(vals), 1)) :
         vals \in {Defined(xs)}})

\* The sample variance (ddof = 1) of n >= 2 finite values.
Variance(vals, squares, n) ==
  FDiv(FSub(SumRange(squares, 1, n),
            FDiv(FMul(SumRange(vals, 1, n), SumRange(vals, 1, n)), Q(n, 1))),
       Q(n - 1, 1))

\* Series.std(): the sample standard deviation (ddof = 1) of the defined
\* values; NaN for fewer than two values or when a value is infinite.
Std(xs) ==
  The({IF Len(vals) < 2 \/ \E i \in 1..Len(vals) : IsInf(vals[i]) THEN SNaN
       ELSE The({Sqrt(Variance(vals, squares, Len(vals))) :
                   squares \in {Times(vals, vals)}}) :
         vals \in {Defined(xs)}})

\* Trading days per year.
TradingDays == 252

\* (mean / std) * np.sqrt(252) for a double mean and a surd std.
Annualised(mean, std) ==
  IF IsNaN(mean) \/ IsNaN(std) THEN SNaN
  ELSE IF std.s = 0
    THEN (IF mean.n = 0 THEN SNaN ELSE SInf(Sign(mean.n)))
  ELSE IF IsInf(mean) THEN SInf(Sign(mean.n))
  ELSE The({Surd(Sign(mean.n), square.n, square.d) :
              square \in {QMul(QMul(Q(TradingDays, 1), QMul(mean, mean)),
                               Q(std.d, std.n))}})

\* std != 0 (true for an undefined std).
StdNonZero(std) == IsNaN(std) \/ std.s # 0

SharpeRatio(pnl) ==
  The({IF StdNonZero(std) THEN Annualised(mean, std) ELSE SNaN :
         std \in {Std(pnl)}, mean \in {Mean(pnl)}})

SortinoRatio(pnl) ==
  The({IF Len(downside) > 0
         THEN The({IF StdNonZero(std) THEN Annualised(mean, std) ELSE SNaN :
                     std \in {Std(downside)}, mean \in {Mean(pnl)}})
         ELSE SNaN :
         downside \in {Select(pnl, [t \in 1..Len(pnl) |-> FLt(pnl[t], Zero)])}})

\* Series.cummax(): the running maximum of the defined values, NaN at the
\* rows that hold NaN.
CumMax(xs) ==
  [t \in 1..Len(xs) |->
     IF IsNaN(xs[t]) THEN NaN
     ELSE xs[CHOOSE j \in 1..t :
               /\ ~IsNaN(xs[j])
               /\ \A m \in 1..t : ~FLt(xs[j], xs[m])]]

\* Series.min(): the least defined value, NaN when there is none.
Min(xs) ==
  The({IF Len(vals) = 0 THEN NaN
       ELSE vals[CHOOSE i \in 1..Len(vals) :
                   \A j \in 1..Len(vals) : ~FLt(vals[j], vals[i])] :
         vals \in {Defined(xs)}})

\* cum_pnl - cum_pnl.cummax()
Drawdown(cum) ==
  The({[t \in 1..Len(cum) |-> FSub(cum[t], peak[t])] : peak \in {CumMax(cum)}})

\* (cum_pnl - cum_pnl.cummax()).min()
MaxDrawdown(cum) == The({Min(drawdown) : drawdown \in {Drawdown(cum)}})

WinRate(pnl) ==
  The({IF Len(active) > 0
         THEN Q(Cardinality({t \in 1..Len(active) : FLt(Zero, active[t])}), Len(active))
         ELSE Zero :
         active \in {Select(pnl, [t \in 1..Len(pnl) |-> ~FEq(pnl[t], Zero)])}})

\* signal.diff().abs(): undefined at the first row.
SignalChanges(sig) ==
  [t \in 1..Len(sig) |-> IF t = 1 THEN NaN ELSE Q(Abs(sig[t] - sig[t - 1]), 1)]

\* The position changes summed by size: a flip from +1 to -1 counts twice.
NumTradesBySize(sig) ==
  The({SumRange([t \in 1..Len(sig) |-> IF t = 1 THEN Zero ELSE changes[t]], 1, Len(sig)).n :
         changes \in {SignalChanges(sig)}})

\* (signal_changes > 0).sum()
NumTrades(sig) ==
  The({Cardinality({t \in 1..Len(sig) : FLt(Zero, changes[t])}) :
         changes \in {SignalChanges(sig)}})

Turnover(sig) == The({Mean(changes) : changes \in {SignalChanges(sig)}})

Winning(pnl) == Select(pnl, [t \in 1..Len(pnl) |-> FLt(Zero, pnl[t])])

Losing(pnl) == Select(pnl, [t \in 1..Len(pnl) |-> FLt(pnl[t], Zero)])

AvgWin(pnl) ==
  The({IF Len(winning) > 0 THEN Mean(winning) ELSE Zero : winning \in {Winning(pnl)}})

AvgLoss(pnl) ==
  The({IF Len(losing) > 0 THEN Mean(losing) ELSE Zero : losing \in {Losing(pnl)}})

FAbs(x) == IF IsNaN(x) THEN NaN ELSE [x EXCEPT !.n = Abs(x.n)]

GrossProfit(pnl) ==
  The({IF Len(winning) > 0 THEN Sum(winning) ELSE Zero : winning \in {Winning(pnl)}})

\* The sum of the losing days with its sign.
GrossLossSigned(pnl) ==
  The({IF Len(losing) > 0 THEN Sum(losing) ELSE Zero : losing \in {Losing(pnl)}})

GrossLoss(pnl) ==
  The({IF Len(losing) > 0 THEN FAbs(Sum(losing)) ELSE Zero : losing \in {Losing(pnl)}})

ProfitFactor(pnl) ==
  The({IF ~FEq(gross_loss, Zero) THEN FDiv(gross_profit, gross_loss)
       ELSE IF FLt(Zero, gross_profit) THEN PInf
       ELSE NaN :
         gross_profit \in {GrossProfit(pnl)}, gross_loss \in {GrossLoss(pnl)}})

\* The record returned for an empty table.
DefaultMetrics ==
  [total_return  |-> Zero,
   sharpe_ratio  |-> SNaN,
   sortino_ratio |-> SNaN,
   max_drawdown  |-> Zero,
   win_rate      |-> Zero,
   num_trades    |-> 0,
   turnover      |-> Zero,
   avg_win       |-> Zero,
   avg_loss      |-> Zero,
   profit_factor |-> NaN]

calculate_performance_metrics(t) ==
  IF ~({"pnl", "cum_pnl", "signal"} \subseteq t.cols) THEN ValueError
  ELSE IF Empty(t) THEN DefaultMetrics
  ELSE LET pnl     == t.data["pnl"]
           cum_pnl == t.data["cum_pnl"]
           signal  == t.data["signal"]
       IN  [total_return  |-> cum_pnl[Len(cum_pnl)],
            sharpe_ratio  |-> SharpeRatio(pnl),
            sortino_ratio |-> SortinoRatio(pnl),
            max_drawdown  |-> MaxDrawdown(cum_pnl),
            win_rate      |-> WinRate(pnl),
            num_trades    |-> NumTrades(signal),
            turnover      |-> Turnover(signal),
            avg_win       |-> AvgWin(pnl),
            avg_loss      |-> AvgLoss(pnl),
            profit_factor |-> ProfitFactor(pnl)]

----------------------------------------------------------------------------
(***************************************************************************)
(* optimise.py: _single_run                                                *)
(***************************************************************************)
None == [none |-> TRUE]

\* except Exception: return None
Except(e) == None

\* Mutant: observations counts the rows of the price table.
ObservationsOfInput(prices, bt) == prices.len

\* int(bt.shape[0])
Observations(prices, bt) == bt.len

\* The record of one run: the parameters, the row count and the metrics.
Record(lb, ez, xz, observations, metrics) ==
  [lookback     |-> lb,
   entry_z      |-> ez,
   exit_z       |-> xz,
   observations |-> observations] @@ metrics

_single_run(prices, lb, ez, xz, padded) ==
  The({IF Raised(processed) THEN Except(processed)
       ELSE IF processed.len < 2 THEN None
       ELSE The({IF Raised(with_signals) THEN Except(with_signals)
                 ELSE The({IF Raised(bt) THEN Except(bt)
                           ELSE The({IF Raised(metrics) THEN Except(metrics)
                                     ELSE Record(lb, ez, xz, Observations(prices, bt),
                                                 metrics) :
                                       metrics \in {calculate_performance_metrics(bt)}}) :
                             bt \in {run_backtest(with_signals, padded)}}) :
                   with_signals \in {generate_trade_signals(processed, ez, xz)}}) :
         processed \in {prepare_spread(prices, lb)}})

----------------------------------------------------------------------------
(***************************************************************************)
(* optimise.py: grid_search.  A result table is held row by row: cols is   *)
(* the set of its column names and rows the sequence of its records.       *)
(***************************************************************************)
\* Mutant: the three lists are walked in step, as zip does.
ParamCombinationsZip(c) ==
  [k \in 1..(CHOOSE n \in {Len(c.lookbacks), Len(c.entry_zs), Len(c.exit_zs)} :
               n <= Len(c.lookbacks) /\ n <= Len(c.entry_zs) /\ n <= Len(c.exit_zs)) |->
     [lb |-> c.lookbacks[k], ez |-> c.entry_zs[k], xz |-> c.exit_zs[k]]]

\* list(itertools.product(cfg.lookbacks, cfg.entry_zs, cfg.exit_zs)): the
\* last list varies fastest.
ParamCombinations(c) ==
  [k \in 1..(Len(c.lookbacks) * Len(c.entry_zs) * Len(c.exit_zs)) |->
     [lb |-> c.lookbacks[((k - 1) \div (Len(c.entry_zs) * Len(c.exit_zs))) + 1],
      ez |-> c.entry_zs[(((k - 1) \div Len(c.exit_zs)) % Len(c.entry_zs)) + 1],
      xz |-> c.exit_zs[((k - 1) % Len(c.exit_zs)) + 1]]]

\* Mutant: min_trades is not applied.
PassesFiltersObsOnly(result, c) == result.observations >= c.min_obs

\* Neither quality filter skips the result.
PassesFilters(result, c) ==
  /\ ~(result.observations < c.min_obs)
  /\ ~(result.num_trades < c.min_trades)

\* The body of the loop on the combination p: the records after it.
Visit(recs, prices, p, c, padded) ==
  IF FLe(p.ez, p.xz) THEN recs
  ELSE The({IF result = None THEN recs
            ELSE IF ~PassesFilters(result, c) THEN recs
            ELSE Append(recs, result) :
              result \in {_single_run(prices, p.lb, p.ez, p.xz, padded)}})

\* pd.DataFrame()
EmptyResult == [cols |-> {}, rows |-> <<>>]

CanonicalColumns ==
  {"lookback", "entry_z", "exit_z", "observations",
   "total_return", "sharpe_ratio", "sortino_ratio", "max_drawdown",
   "win_rate", "num_trades", "turnover", "avg_win", "avg_loss", "profit_factor"}

\* np.where(df["num_trades"] > 0, df["total_return"] / df["num_trades"], np.nan)
ReturnPerTrade(r) ==
  IF r.num_trades > 0 THEN FDiv(r.total_return, Q(r.num_trades, 1)) ELSE NaN

\* np.where(df["total_return"] != 0,
\*          df["max_drawdown"] / abs(df["total_return"]), np.nan)
DrawdownToReturn(r) ==
  IF ~FEq(r.total_return, Zero) THEN FDiv(r.max_drawdown, FAbs(r.total_return)) ELSE NaN

WithDerived(r) ==
  r @@ [return_per_trade |-> ReturnPerTrade(r), drawdown_to_return |-> DrawdownToReturn(r)]

\* The order of two Sharpe ratios in the descending sort: -1 when a sorts
\* first, 1 when b sorts first, 0 for a tie.  NaN sorts last.
SharpeOrder(a, b) ==
  IF IsNaN(a) /\ IsNaN(b) THEN 0
  ELSE IF IsNaN(b) THEN -1
  ELSE IF IsNaN(a) THEN 1
  ELSE IF SurdLt(b, a) THEN -1
  ELSE IF SurdLt(a, b) THEN 1
  ELSE 0

\* The same for two doubles in an ascending sort.
AscOrder(a, b) ==
  IF IsNaN(a) /\ IsNaN(b) THEN 0
  ELSE IF IsNaN(b) THEN -1
  ELSE IF IsNaN(a) THEN 1
  ELSE IF FLt(a, b) THEN -1
  ELSE IF FLt(b, a) THEN 1
  ELSE 0

\* The same for two doubles in a descending sort.
DescOrder(a, b) == IF IsNaN(a) \/ IsNaN(b) THEN AscOrder(a, b) ELSE AscOrder(b, a)

\* by=["sharpe_ratio", "total_return", "max_drawdown"],
\* ascending=[False, False, True]
RowOrder(r1, r2) ==
  IF SharpeOrder(r1.sharpe_ratio, r2.sharpe_ratio) # 0
    THEN SharpeOrder(r1.sharpe_ratio, r2.sharpe_ratio)
  ELSE IF DescOrder(r1.total_return, r2.total_return) # 0
    THEN DescOrder(r1.total_return, r2.total_return)
  ELSE AscOrder(r1.max_drawdown, r2.max_drawdown)

\* The place of row i after the sort: rows that tie keep their order.
Rank(rows, i) ==
  1 + Cardinality({j \in 1..Len(rows) :
                     \/ RowOrder(rows[j], rows[i]) = -1
                     \/ RowOrder(rows[j], rows[i]) = 0 /\ j < i})

\* df.sort_values(...).reset_index(drop=True)
SortValues(rows) ==
  [k \in 1..Len(rows) |-> rows[CHOOSE i \in 1..Len(rows) : Rank(rows, i) = k]]

\* What grid_search returns once the loop has collected recs.
GridResult(recs) ==
  IF Len(recs) = 0 THEN [cols |-> CanonicalColumns, rows |-> <<>>]
  ELSE The({[cols |-> CanonicalColumns \cup {"return_per_trade", "drawdown_to_return"},
             rows |-> SortValues(rows)] :
              rows \in {[k \in 1..Len(recs) |-> WithDerived(recs[k])]}})

\* The records the loop has collected after its first k combinations.
RECURSIVE Collected(_, _, _, _)
Collected(prices, c, padded, k) ==
  IF k = 0 THEN <<>>
  ELSE The({Visit(before, prices, ParamCombinations(c)[k], c, padded) :
              before \in {Collected(prices, c, padded, k - 1)}})

\* A whole call of grid_search: the value it returns or the error it raises.
grid_search(prices, c, padded) ==
  IF Cardinality(prices.cols) # 2 THEN ValueError
  ELSE IF Empty(prices) THEN EmptyResult
  ELSE The({GridResult(recs) :
              recs \in {Collected(prices, c, padded, Len(ParamCombinations(c)))}})

\* res.empty for a table of rows.
NoRows(res) == res.cols = {} \/ Len(res.rows) = 0

\* {}
EmptyDict == [columns |-> {}]

\* The row the sort put last, where best_config takes the first.
BestRowLast(res) == IF NoRows(res) THEN EmptyDict ELSE res.rows[Len(res.rows)]

\* {} if res.empty else res.iloc[0].to_dict()
BestRow(res) == IF NoRows(res) THEN EmptyDict ELSE res.rows[1]

\* What best_config makes of the outcome res of its call of grid_search: an
\* error goes through to the caller.
BestConfigOf(res) == IF Raised(res) THEN res ELSE BestRow(res)

best_config(prices, c, padded) ==
  The({BestConfigOf(res) : res \in {grid_search(prices, c, padded)}})

\* df.iloc[a:b] with Python's bounds: the rows a+1 .. b in 1-based counting.
ILoc(t, a, b) == TakeRows(t, [i \in 1..(IF b > a THEN b - a ELSE 0) |-> a + i])

\* not 0.0 < train_fraction < 1.0
BadFraction(f) == ~(FLt(Zero, f) /\ FLt(f, Q(1, 1)))

\* int(len(df_prices) * train_fraction): int() drops the fraction of the
\* product (toward zero).
SplitIdx(n, f) ==
  IF n * f.n >= 0 THEN (n * f.n) \div f.d ELSE -((-(n * f.n)) \div f.d)

\* The whole table as training rows.
TrainRowsAll(t, f) == t

\* df_prices.iloc[:split_idx]
TrainRows(t, f) == ILoc(t, 0, SplitIdx(t.len, f))

\* Test rows that start one row after the split.
TestRowsSkip(t, f) == ILoc(t, SplitIdx(t.len, f) + 1, t.len)

\* df_prices.iloc[split_idx:]
TestRows(t, f) == ILoc(t, SplitIdx(t.len, f), t.len)

\* The difference p - m of two surds as a value: NaN, an infinity of sign s,
\* or the pair of its finite terms.
DNaN == [k |-> "nan", s |-> 0, plus |-> SNaN, minus |-> SNaN]

DInf(s) == [k |-> "inf", s |-> s, plus |-> SNaN, minus |-> SNaN]

SurdSub(a, b) ==
  IF IsNaN(a) \/ IsNaN(b) THEN DNaN
  ELSE IF IsInf(a) /\ IsInf(b) THEN (IF a.s = b.s THEN DNaN ELSE DInf(a.s))
  ELSE IF IsInf(a) THEN DInf(a.s)
  ELSE IF IsInf(b) THEN DInf(-b.s)
  ELSE [k |-> "fin", s |-> 0, plus |-> a, minus |-> b]

\* x / y for two finite surds, y not 0.
SurdQuot(x, y) ==
  The({Surd(x.s * y.s, q.n, q.d) : q \in {QMul(Q(x.n, x.d), Q(y.d, y.n))}})

\* x * i for a finite surd x and a positive integer i.
SurdTimes(x, i) ==
  The({Surd(x.s, q.n, q.d) : q \in {QMul(Q(x.n, x.d), Q(i * i, 1))}})

\* d / a * 100 for a difference d and a surd a.
PercentOf(d, a) ==
  IF IsNaN(d) \/ IsNaN(a) THEN DNaN
  ELSE IF IsInf(a) THEN (IF IsInf(d) THEN DNaN ELSE SurdSub(Surd(0, 0, 1), Surd(0, 0, 1)))
  ELSE IF a.s = 0
    THEN (IF IsInf(d) THEN DInf(d.s)
          ELSE IF SurdLt(d.minus, d.plus) THEN DInf(1)
          ELSE IF SurdLt(d.plus, d.minus) THEN DInf(-1)
          ELSE DNaN)
  ELSE IF IsInf(d) THEN DInf(d.s * a.s)
  ELSE [k |-> "fin", s |-> 0,
        plus  |-> SurdTimes(SurdQuot(d.plus, a), 100),
        minus |-> SurdTimes(SurdQuot(d.minus, a), 100)]

\* The degradation with the two Sharpe ratios exchanged in the difference.
DegradationReversed(train_sharpe, test_sharpe) ==
  IF ~IsNaN(train_sharpe) /\ train_sharpe.s = 0 THEN DNaN
  ELSE PercentOf(SurdSub(test_sharpe, train_sharpe), SAbs(train_sharpe))

\* ((train_sharpe - test_sharpe) / abs(train_sharpe) * 100)
\*   if train_sharpe != 0 else np.nan
\* (NaN != 0 is true: a NaN train_sharpe goes through the arithmetic).
Degradation(train_sharpe, test_sharpe) ==
  IF ~IsNaN(train_sharpe) /\ train_sharpe.s = 0 THEN DNaN
  ELSE PercentOf(SurdSub(train_sharpe, test_sharpe), SAbs(train_sharpe))

\* The dictionary walk_forward_validation returns.
WfResult(train_best, test_metrics, train_sharpe, test_sharpe, degradation) ==
  [train_best         |-> train_best,
   test_metrics       |-> test_metrics,
   train_sharpe       |-> train_sharpe,
   test_sharpe        |-> test_sharpe,
   sharpe_degradation |-> degradation]

\* The out-of-sample run: _single_run on the test rows with the parameters
\* of train_best, int(lookback) being the lookback itself.
TestRun(df_test, train_best, padded) ==
  _single_run(df_test, train_best.lookback, train_best.entry_z, train_best.exit_z, padded)

\* walk_forward_validation from the test run on.
WfAfterTraining(df_test, train_best, padded) ==
  The({IF test_result = None
         THEN WfResult(train_best, EmptyDict, train_best.sharpe_ratio, SNaN, DNaN)
       ELSE WfResult(train_best, test_result, train_best.sharpe_ratio,
                     test_result.sharpe_ratio,
                     Degradation(train_best.sharpe_ratio, test_result.sharpe_ratio)) :
         test_result \in {TestRun(df_test, train_best, padded)}})

\* The end of every segment at a multiple of period_size, the last one too.
SegmentEndNoTail(i, period_size, n, periods) == (i + 1) * period_size

\* end_idx of the segment with loop index i (from 0):
\* (i + 1) * period_size if i < n_periods - 1 else len(df_prices)
SegmentEnd(i, period_size, n, periods) ==
  IF i < periods - 1 THEN (i + 1) * period_size ELSE n

\* The row robustness_analysis appends for the segment with loop index i.
PeriodRow(i, start_idx, end_idx, df_period, best) ==
  [period       |-> i + 1,
   start_idx    |-> start_idx,
   end_idx      |-> end_idx,
   n_rows       |-> df_period.len,
   lookback     |-> best.lookback,
   entry_z      |-> best.entry_z,
   exit_z       |-> best.exit_z,
   sharpe_ratio |-> best.sharpe_ratio,
   total_return |-> best.total_return,
   max_drawdown |-> best.max_drawdown,
   num_trades   |-> best.num_trades]

\* pd.DataFrame(results) for a list of dictionaries with the same keys.
FromDicts(results) ==
  IF Len(results) = 0 THEN EmptyResult
  ELSE [cols |-> DOMAIN results[1], rows |-> results]

\* cost_bps / 10000.0
CostFraction(cost_bps) == Q(cost_bps, 10000)

\* A cost that charges each trade once.
CostDragOneWay(r, cost_bps) == FMul(Q(r.num_trades, 1), CostFraction(cost_bps))

\* num_trades * 2 * cost_fraction
CostDrag(r, cost_bps) == FMul(Q(r.num_trades * 2, 1), CostFraction(cost_bps))

\* z * q for a surd z and a double q.
SurdMul(z, q) ==
  IF IsNaN(z) \/ IsNaN(q) THEN SNaN
  ELSE IF IsInf(z) \/ IsInf(q)
    THEN (IF z.s = 0 \/ q.n = 0 THEN SNaN ELSE SInf(z.s * Sign(q.n)))
  ELSE The({Surd(z.s * Sign(q.n), square.n, square.d) :
              square \in {QMul(Q(z.n, z.d), QMul(q, q))}})

\* np.where(total_return != 0,
\*          sharpe_ratio * (total_return_after_cost / total_return), 0)
SharpeAfterCost(r, after) ==
  IF ~FEq(r.total_return, Zero)
    THEN SurdMul(r.sharpe_ratio, FDiv(after, r.total_return))
  ELSE Surd(0, 0, 1)

\* The three columns the loop adds to a row of the baseline.
WithCost(r, cost_bps) ==
  The({r @@ [cost_drag |-> drag,
             total_return_after_cost |-> after,
             sharpe_ratio_after_cost |-> SharpeAfterCost(r, after)] :
         drag \in {CostDrag(r, cost_bps)},
         after \in {FSub(r.total_return, CostDrag(r, cost_bps))}})

\* by=["sharpe_ratio_after_cost", "total_return_after_cost"],
\* ascending=[False, False]
CostOrder(r1, r2) ==
  IF SharpeOrder(r1.sharpe_ratio_after_cost, r2.sharpe_ratio_after_cost) # 0
    THEN SharpeOrder(r1.sharpe_ratio_after_cost, r2.sharpe_ratio_after_cost)
  ELSE DescOrder(r1.total_return_after_cost, r2.total_return_after_cost)

\* results_with_cost.sort_values(...).iloc[0]: the row no other row comes
\* before, rows that tie keeping the order of the baseline.
FirstAfterCost(rows) ==
  rows[CHOOSE i \in 1..Len(rows) :
         \A j \in 1..Len(rows) :
           /\ CostOrder(rows[j], rows[i]) # -1
           /\ CostOrder(rows[j], rows[i]) = 0 => j >= i]

\* The row transaction_cost_analysis appends for one cost level.
CostRow(cost_bps, best) ==
  [cost_bps     |-> cost_bps,
   lookback     |-> best.lookback,
   entry_z      |-> best.entry_z,
   exit_z       |-> best.exit_z,
   sharpe_ratio |-> best.sharpe_ratio_after_cost,
   total_return |-> best.total_return_after_cost,
   num_trades   |-> best.num_trades,
   cost_drag    |-> best.cost_drag]

\* One pass of the loop over cost_bps_range: the row for the level.
CostLevelRow(baseline_rows, cost_bps) ==
  The({CostRow(cost_bps, FirstAfterCost(rows)) :
         rows \in {[k \in 1..Len(baseline_rows) |-> WithCost(baseline_rows[k], cost_bps)]}})

----------------------------------------------------------------------------
(***************************************************************************)
(* Specification SpecBacktest: run_backtest on tables of spread and        *)
(* signal.                                                                 *)
(***************************************************************************)
SpreadVals == {NaN, Q(0, 1), Q(1, 1), Q(2, 1), Q(-2, 1)}

SignalVals == {-1, 0, 1}

\* A table of the two columns spread and signal.
SpreadSignalFrame(xs, sig) == WithColumn(Frame1("spread", xs), "signal", sig)

BtTables ==
  {SpreadSignalFrame(xs, sig) :
     xs \in SeqsUpTo(SpreadVals, MaxBtRows), sig \in SeqsUpTo(SignalVals, MaxBtRows)}

InitBacktest ==
  /\ pc = "start"
  /\ results_df = Nil /\ top_n = 0 /\ tolerance = Nil
  /\ df \in {t \in BtTables : Len(t.data["spread"]) = Len(t.data["signal"])}
              \cup {Frame1("spread", <<Zero>>)}
  /\ lookback = 0
  /\ entry_z = Zero
  /\ exit_z = Zero
  /\ pad \in BOOLEAN
  /\ ret = Nil
  /\ cfg = Nil /\ idx = 0 /\ records = <<>> /\ local = Nil
  /\ train_fraction = Nil /\ n_periods = 0 /\ cost_bps_range = <<>>

CallRunBacktest ==
  /\ pc = "start"
  /\ pc' = "backtest"
  /\ ret' = run_backtest(df, pad)
  /\ UNCHANGED <<args, idx, records, local>>

NextBacktest == CallRunBacktest

SpecBacktest == InitBacktest /\ [][NextBacktest]_vars

----------------------------------------------------------------------------
(***************************************************************************)
(* Specification SpecPipeline: a caller that runs the four stages one      *)
(* after the other on a price table, each on the result of the one before, *)
(* or calls _single_run on the price table.  An exception raised by a      *)
(* stage ends the caller.                                                  *)
(***************************************************************************)
PriceVals == {Q(1, 1), Q(2, 1), Q(3, 1)}

\* A price table of the given columns, all holding the same number of rows.
PriceFrame(as, bs) == WithColumn(Frame1("A", as), "B", bs)

PriceTables ==
  {PriceFrame(as, bs) : as \in SeqsUpTo(PriceVals, MaxPriceRows),
                        bs \in SeqsUpTo(PriceVals \ {Q(3, 1)}, MaxPriceRows)}

TwoColumnTables == {t \in PriceTables : Len(t.data["A"]) = Len(t.data["B"])}

\* Tables of one and of three columns.
OtherTables ==
  {Frame1("A", <<Q(1, 1), Q(2, 1)>>),
   WithColumn(PriceFrame(<<Q(1, 1), Q(2, 1)>>, <<Q(1, 1), Q(1, 1)>>), "C",
              <<Q(1, 1), Q(2, 1)>>)}

Lookbacks == {1, 2, 3}

InitPipeline ==
  /\ pc = "start"
  /\ results_df = Nil /\ top_n = 0 /\ tolerance = Nil
  /\ df \in TwoColumnTables \cup OtherTables
  /\ lookback \in Lookbacks
  /\ entry_z \in {Q(1, 2), Q(1, 1)}
  /\ exit_z \in {Q(1, 2)}
  /\ pad = TRUE
  /\ ret = Nil
  /\ cfg = Nil /\ idx = 0 /\ records = <<>> /\ local = Nil
  /\ train_fraction = Nil /\ n_periods = 0 /\ cost_bps_range = <<>>

PipePrepareSpread ==
  /\ pc = "start"
  /\ pc' = "spread"
  /\ ret' = prepare_spread(df, lookback)
  /\ UNCHANGED <<args, idx, records, local>>

PipeGenerateTradeSignals ==
  /\ pc = "spread" /\ ~Raised(ret)
  /\ pc' = "signals"
  /\ ret' = generate_trade_signals(ret, entry_z, exit_z)
  /\ UNCHANGED <<args, idx, records, local>>

PipeRunBacktest ==
  /\ pc = "signals" /\ ~Raised(ret)
  /\ pc' = "backtest"
  /\ ret' = run_backtest(ret, pad)
  /\ UNCHANGED <<args, idx, records, local>>

PipeMetrics ==
  /\ pc = "backtest" /\ ~Raised(ret)
  /\ pc' = "metrics"
  /\ ret' = calculate_performance_metrics(ret)
  /\ UNCHANGED <<args, idx, records, local>>

CallSingleRun ==
  /\ pc = "start"
  /\ pc' = "single_run"
  /\ ret' = _single_run(df, lookback, entry_z, exit_z, pad)
  /\ UNCHANGED <<args, idx, records, local>>

NextPipeline ==
  \/ PipePrepareSpread
  \/ PipeGenerateTradeSignals
  \/ PipeRunBacktest
  \/ PipeMetrics
  \/ CallSingleRun

SpecPipeline == InitPipeline /\ [][NextPipeline]_vars

----------------------------------------------------------------------------
(***************************************************************************)
(* Specification SpecGrid: grid_search on a price table and a grid, one    *)
(* step per combination of the loop.  idx is the place in the list of      *)
(* combinations the loop has come to.  SpecGridLive adds that the call     *)
(* keeps running until it returns.                                         *)
(***************************************************************************)
\* The second price column: 1, 2, 1, 2, ...
Alternating(n) == [t \in 1..n |-> Q(1 + ((t + 1) % 2), 1)]

GridPriceVals == {Q(1, 1), Q(2, 1)}

GridTables ==
  {PriceFrame(as, Alternating(Len(as))) : as \in SeqsUpTo(GridPriceVals, MaxGridRows)}
    \cup OtherTables

GridConfigs ==
  [lookbacks  : {<<2, 3>>},
   entry_zs   : {<<Q(1, 2), Q(1, 1)>>, <<Q(1, 2), Q(3, 5)>>},
   exit_zs    : {<<Q(1, 4), Q(1, 2)>>},
   min_trades : {0, 1},
   min_obs    : {2, 4}]

InitGrid ==
  /\ pc = "start"
  /\ results_df = Nil /\ top_n = 0 /\ tolerance = Nil
  /\ df \in GridTables
  /\ cfg \in GridConfigs
  /\ pad = TRUE
  /\ lookback = 0
  /\ entry_z = Zero
  /\ exit_z = Zero
  /\ ret = Nil
  /\ idx = 0
  /\ records = <<>>
  /\ local = Nil
  /\ train_fraction = Nil /\ n_periods = 0 /\ cost_bps_range = <<>>

\* The checks before the loop, and the start of the loop.
GridStart ==
  /\ pc = "start"
  /\ IF Cardinality(df.cols) # 2
       THEN pc' = "done" /\ ret' = ValueError /\ UNCHANGED <<idx, records>>
     ELSE IF Empty(df)
       THEN pc' = "done" /\ ret' = EmptyResult /\ UNCHANGED <<idx, records>>
     ELSE pc' = "loop" /\ idx' = 1 /\ records' = <<>> /\ UNCHANGED ret
  /\ UNCHANGED <<args, local>>

\* One pass of the loop.
GridIterate ==
  /\ pc = "loop"
  /\ idx <= Len(ParamCombinations(cfg))
  /\ records' = Visit(records, df, ParamCombinations(cfg)[idx], cfg, pad)
  /\ idx' = idx + 1
  /\ UNCHANGED <<pc, ret, args, local>>

\* The loop is over: the table is built, sorted and returned.
GridFinish ==
  /\ pc = "loop"
  /\ idx > Len(ParamCombinations(cfg))
  /\ pc' = "done"
  /\ ret' = GridResult(records)
  /\ UNCHANGED <<idx, records, args, local>>

NextGrid ==
  \/ GridStart
  \/ GridIterate
  \/ GridFinish

SpecGrid == InitGrid /\ [][NextGrid]_vars

\* The loop goes on to the next combination.
LoopStep == pc = "loop" /\ idx <= Len(ParamCombinations(cfg)) /\ idx' = idx + 1

\* The call leaves the loop and returns.
LoopExit == pc = "loop" /\ idx > Len(ParamCombinations(cfg)) /\ pc' = "done"

\* The call is sequential code that runs on: it gets through its checks,
\* goes from each combination to the next, and returns after the last.
SpecGridLive ==
  SpecGrid /\ WF_vars(GridStart) /\ WF_idx(LoopStep) /\ WF_pc(LoopExit)

----------------------------------------------------------------------------
(***************************************************************************)
(* Specification SpecBest: one call of best_config on the tables and the   *)
(* grids of SpecGrid.                                                      *)
(***************************************************************************)
CallBestConfig ==
  /\ pc = "start"
  /\ pc' = "best"
  /\ local' = grid_search(df, cfg, pad)
  /\ ret' = BestConfigOf(local')
  /\ UNCHANGED <<args, idx, records>>

NextBest == CallBestConfig

SpecBest == InitGrid /\ [][NextBest]_vars

----------------------------------------------------------------------------
(***************************************************************************)
(* Specification SpecWalkForward: one call of walk_forward_validation,     *)
(* step by step: the split, the optimisation on the training rows, the run *)
(* on the test rows.  local holds split_idx, df_train, df_test and, once   *)
(* it exists, train_best.                                                  *)
(***************************************************************************)
\* A training table whose best configuration has a Sharpe ratio of 0.
ZeroSharpeRows == <<Q(1, 1), Q(3, 1), Q(2, 1), Q(2, 1), Q(1, 1)>>

WfTables ==
  {PriceFrame(as, Alternating(Len(as))) : as \in SeqsUpTo(GridPriceVals, MaxWfRows)}
    \cup {PriceFrame(ZeroSharpeRows \o as, Alternating(Len(as) + 5)) :
            as \in SeqsUpTo(GridPriceVals, 3) \ SeqsUpTo(GridPriceVals, 2)}
    \cup OtherTables

WfConfigs == {c \in GridConfigs : c.min_obs = 2}

TrainFractions == {Q(0, 1), Q(1, 2), Q(5, 8), Q(1, 1)}

InitWalkForward ==
  /\ pc = "start"
  /\ results_df = Nil /\ top_n = 0 /\ tolerance = Nil
  /\ df \in WfTables
  /\ cfg \in WfConfigs
  /\ train_fraction \in TrainFractions
  /\ pad = TRUE
  /\ lookback = 0 /\ entry_z = Zero /\ exit_z = Zero
  /\ ret = Nil /\ idx = 0 /\ records = <<>> /\ local = Nil
  /\ n_periods = 0 /\ cost_bps_range = <<>>

\* The check of train_fraction, then the split.
WfSplit ==
  /\ pc = "start"
  /\ IF BadFraction(train_fraction)
       THEN pc' = "done" /\ ret' = ValueError /\ UNCHANGED local
     ELSE /\ pc' = "train"
          /\ local' = [split_idx |-> SplitIdx(df.len, train_fraction),
                       df_train  |-> TrainRows(df, train_fraction),
                       df_test   |-> TestRows(df, train_fraction)]
          /\ UNCHANGED ret
  /\ UNCHANGED <<args, idx, records>>

\* best_config on the training rows; without a configuration the call
\* returns here.
WfTrain ==
  /\ pc = "train"
  /\ \E train_best \in {best_config(local.df_train, cfg, pad)} :
       IF Raised(train_best)
         THEN pc' = "done" /\ ret' = train_best /\ UNCHANGED local
       ELSE IF train_best = EmptyDict
         THEN /\ pc' = "done"
              /\ ret' = WfResult(EmptyDict, EmptyDict, SNaN, SNaN, DNaN)
              /\ UNCHANGED local
       ELSE /\ pc' = "test"
            /\ local' = [split_idx  |-> local.split_idx,
                         df_train   |-> local.df_train,
                         df_test    |-> local.df_test,
                         train_best |-> train_best]
            /\ UNCHANGED ret
  /\ UNCHANGED <<args, idx, records>>

\* The run on the test rows and the result.
WfTest ==
  /\ pc = "test"
  /\ pc' = "done"
  /\ ret' = WfAfterTraining(local.df_test, local.train_best, pad)
  /\ UNCHANGED <<args, idx, records, local>>

NextWalkForward ==
  \/ WfSplit
  \/ WfTrain
  \/ WfTest

SpecWalkForward == InitWalkForward /\ [][NextWalkForward]_vars

----------------------------------------------------------------------------
(***************************************************************************)
(* Specification SpecRobustness: one call of robustness_analysis, one      *)
(* action for each pass of its loop.  idx is the loop variable i, records  *)
(* the list results, and local holds period_size and the segment of the    *)
(* last pass.                                                              *)
(***************************************************************************)
PeriodCounts == {1, 2, 3}

InitRobustness ==
  /\ pc = "start"
  /\ results_df = Nil /\ top_n = 0 /\ tolerance = Nil
  /\ df \in WfTables
  /\ cfg \in WfConfigs
  /\ n_periods \in PeriodCounts
  /\ pad = TRUE
  /\ lookback = 0 /\ entry_z = Zero /\ exit_z = Zero
  /\ ret = Nil /\ idx = 0 /\ records = <<>> /\ local = Nil
  /\ train_fraction = Nil /\ cost_bps_range = <<>>

\* The check of n_periods and the lines before the loop.
RobStart ==
  /\ pc = "start"
  /\ IF n_periods < 2
       THEN pc' = "done" /\ ret' = ValueError /\ UNCHANGED <<idx, records, local>>
     ELSE /\ pc' = "loop"
          /\ idx' = 0
          /\ records' = <<>>
          /\ local' = [period_size |-> df.len \div n_periods]
          /\ UNCHANGED ret
  /\ UNCHANGED args

\* One pass of the loop: the segment, its best configuration, its row.
RobPeriod ==
  /\ pc = "loop"
  /\ idx < n_periods
  /\ \E start_idx \in {idx * local.period_size},
        end_idx \in {SegmentEnd(idx, local.period_size, df.len, n_periods)} :
       \E df_period \in {ILoc(df, start_idx, end_idx)} :
         \E best \in {best_config(df_period, cfg, pad)} :
           IF Raised(best)
             THEN pc' = "done" /\ ret' = best /\ UNCHANGED <<idx, records, local>>
           ELSE /\ records' = IF best # EmptyDict
                                THEN Append(records,
                                            PeriodRow(idx, start_idx, end_idx, df_period, best))
                              ELSE records
                /\ idx' = idx + 1
                /\ local' = [period_size |-> local.period_size,
                             start_idx   |-> start_idx,
                             end_idx     |-> end_idx,
                             df_period   |-> df_period]
                /\ UNCHANGED <<pc, ret>>
  /\ UNCHANGED args

\* After the loop: the table of the rows.
RobFinish ==
  /\ pc = "loop"
  /\ idx >= n_periods
  /\ pc' = "done"
  /\ ret' = FromDicts(records)
  /\ UNCHANGED <<args, idx, records, local>>

NextRobustness ==
  \/ RobStart
  \/ RobPeriod
  \/ RobFinish

SpecRobustness == InitRobustness /\ [][NextRobustness]_vars

----------------------------------------------------------------------------
(***************************************************************************)
(* Specification SpecCost: one call of transaction_cost_analysis, one      *)
(* action for each cost level.  idx is the position of the loop in         *)
(* cost_bps_range, records the list results, and local holds               *)
(* baseline_results.                                                       *)
(***************************************************************************)
CostTables == {t \in GridTables : t.len <= MaxCostRows}

CostRanges == {<<>>, <<0, 1000>>, <<0, 1000, 2500>>, <<2500, 0>>}

InitCost ==
  /\ pc = "start"
  /\ results_df = Nil /\ top_n = 0 /\ tolerance = Nil
  /\ df \in CostTables
  /\ cfg \in WfConfigs
  /\ cost_bps_range \in CostRanges
  /\ pad = TRUE
  /\ lookback = 0 /\ entry_z = Zero /\ exit_z = Zero
  /\ ret = Nil /\ idx = 0 /\ records = <<>> /\ local = Nil
  /\ train_fraction = Nil /\ n_periods = 0

\* The baseline grid search; an empty baseline ends the call.
CostStart ==
  /\ pc = "start"
  /\ \E baseline_results \in {grid_search(df, cfg, pad)} :
       IF Raised(baseline_results)
         THEN pc' = "done" /\ ret' = baseline_results /\ UNCHANGED <<idx, records, local>>
       ELSE IF NoRows(baseline_results)
         THEN pc' = "done" /\ ret' = EmptyResult /\ UNCHANGED <<idx, records, local>>
       ELSE /\ pc' = "loop"
            /\ idx' = 1
            /\ records' = <<>>
            /\ local' = [baseline_results |-> baseline_results]
            /\ UNCHANGED ret
  /\ UNCHANGED args

\* One pass of the loop.
CostLevel ==
  /\ pc = "loop"
  /\ idx <= Len(cost_bps_range)
  /\ records' = Append(records, CostLevelRow(local.baseline_results.rows, cost_bps_range[idx]))
  /\ idx' = idx + 1
  /\ UNCHANGED <<pc, ret, args, local>>

\* After the loop: the table of the rows.
CostFinish ==
  /\ pc = "loop"
  /\ idx > Len(cost_bps_range)
  /\ pc' = "done"
  /\ ret' = FromDicts(records)
  /\ UNCHANGED <<args, idx, records, local>>

NextCost ==
  \/ CostStart
  \/ CostLevel
  \/ CostFinish

SpecCost == InitCost /\ [][NextCost]_vars

----------------------------------------------------------------------------
(***************************************************************************)
(* Specification SpecMetrics: calculate_performance_metrics on tables of   *)
(* pnl, cum_pnl and signal.                                                *)
(***************************************************************************)
PnlVals == {NaN, PInf, Q(0, 1), Q(1, 1), Q(1, 2), Q(-1, 1)}

\* A backtest table: cum_pnl is the running sum of pnl.
MetricFrame(pnl, sig) ==
  WithColumn(WithColumn(Frame1("pnl", pnl), "cum_pnl", CumSum(pnl)), "signal", sig)

MetricTables ==
  {MetricFrame(pnl, sig) : pnl \in SeqsUpTo(PnlVals, MaxMetricRows),
                           sig \in SeqsUpTo(SignalVals, MaxMetricRows)}
    \cup {Frame1("pnl", <<Zero>>)}

InitMetrics ==
  /\ pc = "start"
  /\ results_df = Nil /\ top_n = 0 /\ tolerance = Nil
  /\ df \in {t \in MetricTables : \A c \in t.cols : Len(t.data[c]) = t.len}
  /\ pad = TRUE
  /\ lookback = 0 /\ entry_z = Zero /\ exit_z = Zero
  /\ ret = Nil
  /\ cfg = Nil /\ idx = 0 /\ records = <<>> /\ local = Nil
  /\ train_fraction = Nil /\ n_periods = 0 /\ cost_bps_range = <<>>

CallMetrics ==
  /\ pc = "start"
  /\ pc' = "metrics"
  /\ ret' = calculate_performance_metrics(df)
  /\ UNCHANGED <<args, idx, records, local>>

NextMetrics == CallMetrics

SpecMetrics == InitMetrics /\ [][NextMetrics]_vars

----------------------------------------------------------------------------
\* The three stages called on a caller's table, and again on their output

\* The objects of a call: the caller's table df and the table out the
\* stage works on, if it made one.
Objects(t) == [df |-> t, out |-> Nil]

\* A stage that works on the caller's table itself.
NoCopy(heap) == [heap |-> heap, ref |-> "df"]

\* out = df.copy(): a new object with the contents of the caller's table.
CopyTable(heap) == [heap |-> [heap EXCEPT !.out = heap.df], ref |-> "out"]

\* The table ref names.
Load(heap, ref) == IF ref = "df" THEN heap.df ELSE heap.out

\* The column assignments of a stage, made on the object ref names.
Store(heap, ref, t) ==
  IF ref = "df" THEN [heap EXCEPT !.df = t] ELSE [heap EXCEPT !.out = t]

\* The columns prepare_spread assigns, before the warmup rows are dropped.
SpreadColumns(t, L) ==
  The({WithColumn(d4, "zscore",
                  ZScore(d4.data["spread"], d4.data["spread_mean"],
                         d4.data["spread_std"])) :
         d4 \in {WithColumn(d3, "spread_std", RollingStd(d3.data["spread"], L)) :
           d3 \in {WithColumn(d2, "spread_mean", RollingMean(d2.data["spread"], L)) :
             d2 \in {WithColumn(d1, "spread",
                                Spread(d1.data[Column(t, 1)], d1.data[Column(t, 2)],
                                       d1.data["beta"])) :
               d1 \in {WithColumn(t, "beta", Bfill(beta)) :
                 beta \in {Beta(cov, var) :
                   cov \in {RollingCov(t.data[Column(t, 1)], t.data[Column(t, 2)], L)},
                   var \in {RollingVar(t.data[Column(t, 2)], L)}}}}}}})

\* The columns run_backtest assigns, before the helper column is dropped.
BacktestColumns(t, padded) ==
  The({WithColumn(out3, "cum_pnl", CumSum(out3.data["pnl"])) :
         out3 \in {WithColumn(out2, "pnl", Pnl(out2.data["signal_shifted"],
                                               out2.data["spread_ret"])) :
           out2 \in {WithColumn(out1, "signal_shifted",
                                ShiftedSignal(out1.data["signal"])) :
             out1 \in {WithColumn(t, "spread_ret",
                                  SpreadRet(t.data["spread"], padded))}}}})

\* prepare_spread on the objects: the objects after the call and the table
\* returned.  dropna returns a new table.
PrepareSpreadCall(heap, L) ==
  IF Cardinality(heap.df.cols) # 2 THEN [heap |-> heap, ret |-> ValueError]
  ELSE IF Empty(heap.df) THEN [heap |-> heap, ret |-> heap.df]
  ELSE The({[heap |-> Store(c.heap, c.ref, SpreadColumns(Load(c.heap, c.ref), L)),
             ret  |-> prepare_spread(Load(c.heap, c.ref), L)] :
              c \in {CopyTable(heap)}})

\* generate_trade_signals on the objects: it returns the object it works on.
GenerateTradeSignalsCall(heap, ez, xz) ==
  IF Raised(generate_trade_signals(heap.df, ez, xz))
    THEN [heap |-> heap, ret |-> ValueError]
  ELSE IF Empty(heap.df) THEN [heap |-> heap, ret |-> heap.df]
  ELSE The({The({[heap |-> after, ret |-> Load(after, c.ref)] :
                    after \in {Store(c.heap, c.ref,
                                     generate_trade_signals(Load(c.heap, c.ref), ez, xz))}}) :
              c \in {CopyTable(heap)}})

\* run_backtest on the objects.  drop returns a new table.
RunBacktestCall(heap, padded) ==
  IF ~({"spread", "signal"} \subseteq heap.df.cols)
    THEN [heap |-> heap, ret |-> ValueError]
  ELSE IF Empty(heap.df) THEN [heap |-> heap, ret |-> heap.df]
  ELSE The({[heap |-> Store(c.heap, c.ref, BacktestColumns(Load(c.heap, c.ref), padded)),
             ret  |-> run_backtest(Load(c.heap, c.ref), padded)] :
              c \in {CopyTable(heap)}})

\* A table that already has a column named signal_shifted.
HelperTable ==
  WithColumn(SpreadSignalFrame(<<Q(1, 1), Q(2, 1)>>, <<1, 0>>), "signal_shifted",
             <<Q(1, 1), Q(1, 1)>>)

\* The longest z-score and price tables of the stage calls.
MaxStageRows == 3

StageTables ==
  {t \in BtTables : Len(t.data["spread"]) = Len(t.data["signal"])}
    \cup {HelperTable}
    \cup {Frame1("zscore", z) : z \in SeqsUpTo(ZVals, MaxStageRows)}
    \cup {t \in TwoColumnTables : t.len <= MaxStageRows}

InitStages ==
  /\ pc = "start"
  /\ results_df = Nil /\ top_n = 0 /\ tolerance = Nil
  /\ df \in StageTables
  /\ lookback = 2
  /\ entry_z = Q(1, 1)
  /\ exit_z \in {Q(1, 2), Q(1, 1)}
  /\ pad \in BOOLEAN
  /\ ret = Nil
  /\ cfg = Nil /\ idx = 0 /\ records = <<>> /\ local = Nil
  /\ train_fraction = Nil /\ n_periods = 0 /\ cost_bps_range = <<>>

\* A stage called on the caller's table: local keeps the caller's table as
\* it was before the call and as it is after it.  prepare_spread is called
\* on the price tables.
StagePrepareSpread ==
  /\ pc = "start"
  /\ df \in TwoColumnTables
  /\ pc' = "spread"
  /\ \E r \in {PrepareSpreadCall(Objects(df), lookback)} :
       /\ ret' = r.ret
       /\ local' = [before |-> df, after |-> r.heap.df]
  /\ UNCHANGED <<args, idx, records>>

StageGenerateTradeSignals ==
  /\ pc = "start"
  /\ pc' = "signals"
  /\ \E r \in {GenerateTradeSignalsCall(Objects(df), entry_z, exit_z)} :
       /\ ret' = r.ret
       /\ local' = [before |-> df, after |-> r.heap.df]
  /\ UNCHANGED <<args, idx, records>>

StageRunBacktest ==
  /\ pc = "start"
  /\ pc' = "backtest"
  /\ \E r \in {RunBacktestCall(Objects(df), pad)} :
       /\ ret' = r.ret
       /\ local' = [before |-> df, after |-> r.heap.df]
  /\ UNCHANGED <<args, idx, records>>

\* The stage called on its own output.
AgainGenerateTradeSignals ==
  /\ pc = "signals" /\ ~Raised(ret)
  /\ pc' = "signals_again"
  /\ \E r \in {GenerateTradeSignalsCall(Objects(ret), entry_z, exit_z)} :
       /\ ret' = r.ret
       /\ local' = [before |-> ret, after |-> r.heap.df]
  /\ UNCHANGED <<args, idx, records>>

AgainRunBacktest ==
  /\ pc = "backtest" /\ ~Raised(ret)
  /\ pc' = "backtest_again"
  /\ \E r \in {RunBacktestCall(Objects(ret), pad)} :
       /\ ret' = r.ret
       /\ local' = [before |-> ret, after |-> r.heap.df]
  /\ UNCHANGED <<args, idx, records>>

\* run_backtest called on the spread and signal columns of its own output.
AgainRunBacktestCore ==
  /\ pc = "backtest" /\ ~Raised(ret)
  /\ pc' = "backtest_core"
  /\ \E r \in {RunBacktestCall(
                 Objects(SpreadSignalFrame(ret.data["spread"], ret.data["signal"])),
                 pad)} :
       /\ ret' = r.ret
       /\ local' = [before |-> ret, after |-> ret]
  /\ UNCHANGED <<args, idx, records>>

NextStages ==
  \/ StagePrepareSpread
  \/ StageGenerateTradeSignals
  \/ StageRunBacktest
  \/ AgainGenerateTradeSignals
  \/ AgainRunBacktest
  \/ AgainRunBacktestCore

SpecStages == InitStages /\ [][NextStages]_vars

----------------------------------------------------------------------------
\* identify_stable_regions (optimise.py)

\* results.head(n) for n >= 0: the first n rows.
AllRows(rows, n) == rows

FirstRowsOf(rows, n) == SubSeq(rows, 1, IF n < Len(rows) THEN n ELSE Len(rows))

\* The columns lookback, entry_z and exit_z of rows, as doubles.
ParamColumn(rows, c) ==
  [k \in 1..Len(rows) |->
     IF c = "lookback" THEN Q(rows[k].lookback, 1)
     ELSE IF c = "entry_z" THEN rows[k].entry_z
     ELSE rows[k].exit_z]

\* Series.min() and Series.max() of a column with a value.
ColMin(xs) == xs[CHOOSE i \in 1..Len(xs) : \A j \in 1..Len(xs) : FLe(xs[i], xs[j])]

ColMax(xs) == xs[CHOOSE i \in 1..Len(xs) : \A j \in 1..Len(xs) : FLe(xs[j], xs[i])]

\* The k-th smallest value of xs.
KthSmallest(xs, k) ==
  xs[CHOOSE i \in 1..Len(xs) :
       /\ Cardinality({j \in 1..Len(xs) : FLt(xs[j], xs[i])}) < k
       /\ k <= Cardinality({j \in 1..Len(xs) : FLe(xs[j], xs[i])})]

\* The sum of the two middle values for an even count.
MedianNotHalved(xs) ==
  IF Len(xs) % 2 = 1 THEN KthSmallest(xs, (Len(xs) + 1) \div 2)
  ELSE FAdd(KthSmallest(xs, Len(xs) \div 2), KthSmallest(xs, Len(xs) \div 2 + 1))

\* Series.median() of a column with a value: the middle value, the mean of
\* the two middle values for an even count.
Median(xs) ==
  IF Len(xs) % 2 = 1 THEN KthSmallest(xs, (Len(xs) + 1) \div 2)
  ELSE FMul(FAdd(KthSmallest(xs, Len(xs) \div 2), KthSmallest(xs, Len(xs) \div 2 + 1)),
            Q(1, 2))

\* int(x) for a finite double: truncation toward zero.
IntOf(x) == Sign(x.n) * (Abs(x.n) \div x.d)

\* tolerance = {"lookback": 15, "entry_z": 0.5, "exit_z": 0.25}
DefaultTolerance == [lookback |-> Q(15, 1), entry_z |-> Q(1, 2), exit_z |-> Q(1, 4)]

\* {}
EmptyParams == [c \in {} |-> Zero]

\* The dict returned for an empty table.
EmptyRegions ==
  [lookback_range  |-> <<NaN, NaN>>,
   entry_z_range   |-> <<NaN, NaN>>,
   exit_z_range    |-> <<NaN, NaN>>,
   lookback_stable |-> FALSE,
   entry_z_stable  |-> FALSE,
   exit_z_stable   |-> FALSE,
   overall_stable  |-> FALSE,
   median_params   |-> EmptyParams]

\* (max - min) <= tolerance[c] over the rows top_configs
Stable(top_configs, c, tol) ==
  FLe(FSub(ColMax(ParamColumn(top_configs, c)), ColMin(ParamColumn(top_configs, c))), tol[c])

\* The dict returned for the rows top_configs; int() of the NaN median of
\* no row raises ValueError.
Regions(top_configs, tol) ==
  IF Len(top_configs) = 0 THEN ValueError
  ELSE [lookback_range  |-> <<IntOf(ColMin(ParamColumn(top_configs, "lookback"))),
                              IntOf(ColMax(ParamColumn(top_configs, "lookback")))>>,
        entry_z_range   |-> <<ColMin(ParamColumn(top_configs, "entry_z")),
                              ColMax(ParamColumn(top_configs, "entry_z"))>>,
        exit_z_range    |-> <<ColMin(ParamColumn(top_configs, "exit_z")),
                              ColMax(ParamColumn(top_configs, "exit_z"))>>,
        lookback_stable |-> Stable(top_configs, "lookback", tol),
        entry_z_stable  |-> Stable(top_configs, "entry_z", tol),
        exit_z_stable   |-> Stable(top_configs, "exit_z", tol),
        overall_stable  |-> /\ Stable(top_configs, "lookback", tol)
                            /\ Stable(top_configs, "entry_z", tol)
                            /\ Stable(top_configs, "exit_z", tol),
        median_params   |->
          [lookback |-> IntOf(Median(ParamColumn(top_configs, "lookback"))),
           entry_z  |-> Median(ParamColumn(top_configs, "entry_z")),
           exit_z   |-> Median(ParamColumn(top_configs, "exit_z"))],
        top_n_analysed  |-> Len(top_configs)]

\* identify_stable_regions(results, top_n, tolerance) for top_n >= 0
identify_stable_regions(res, n, tol) ==
  IF NoRows(res) THEN EmptyRegions
  ELSE Regions(FirstRowsOf(res.rows, IF n < Len(res.rows) THEN n ELSE Len(res.rows)),
               IF tol = None THEN DefaultTolerance ELSE tol)

\* The longest table of configurations.
MaxStableRows == 3

\* The rows of a result table, as far as identify_stable_regions reads them.
ParamRows ==
  [lookback : {20, 35, 36}, entry_z : {Q(1, 2), Q(1, 1), Q(3, 2)}, exit_z : {Q(1, 4), Q(1, 2)}]

StableTables ==
  {[cols |-> {"lookback", "entry_z", "exit_z"}, rows |-> rows] :
     rows \in SeqsUpTo(ParamRows, MaxStableRows)}
    \cup {EmptyResult, [cols |-> CanonicalColumns, rows |-> <<>>]}

TopNs == {0, 1, 2, 5}

Tolerances == {None, [lookback |-> Q(16, 1), entry_z |-> Q(1, 4), exit_z |-> Q(1, 2)]}

InitStable ==
  /\ pc = "start"
  /\ results_df \in StableTables
  /\ top_n \in TopNs
  /\ tolerance \in Tolerances
  /\ df = Nil /\ lookback = 0 /\ entry_z = Zero /\ exit_z = Zero /\ pad = TRUE
  /\ ret = Nil
  /\ cfg = Nil /\ idx = 0 /\ records = <<>> /\ local = Nil
  /\ train_fraction = Nil /\ n_periods = 0 /\ cost_bps_range = <<>>

CallIdentifyStableRegions ==
  /\ pc = "start"
  /\ pc' = "stable"
  /\ ret' = identify_stable_regions(results_df, top_n, tolerance)
  /\ UNCHANGED <<args, idx, records, local>>

NextStable == CallIdentifyStableRegions

SpecStable == InitStable /\ [][NextStable]_vars

----------------------------------------------------------------------------
(***************************************************************************)
(* Claims about generate_trade_signals (checked under SpecSignals).        *)
(***************************************************************************)
SignalsReturned ==
  /\ pc = "signals"
  /\ ~Raised(ret)
  /\ "signal" \in ret.cols

\* Row t is an entry row: |z_t| > entry_z.
EntryRow(t) == SGt(SAbs(df.data["zscore"][t]), entry_z)

\* Row t is an exit row: |z_t| <= exit_z.
ExitRow(t) == SLe(SAbs(df.data["zscore"][t]), exit_z)

\* The raw entry value of row t: -1 above entry_z, +1 below -entry_z, else 0.
RawValue(t) ==
  IF SGt(df.data["zscore"][t], entry_z) THEN -1
  ELSE IF SLt(df.data["zscore"][t], FNeg(entry_z)) THEN 1
  ELSE 0

\* The raw entry value of the most recent row s <= t that has one, else 0.
LastRawValue(t) ==
  LET rows == {s \in 1..t : RawValue(s) # 0}
  IN  IF rows = {} THEN 0
      ELSE RawValue(CHOOSE s \in rows : \A r \in rows : r <= s)

C2_SignalChangesOnlyAtEvents ==
  SignalsReturned =>
    \A t \in 2..ret.len :
      (~EntryRow(t) /\ ~ExitRow(t)) =>
        ret.data["signal"][t] = ret.data["signal"][t - 1]

----------------------------------------------------------------------------
(***************************************************************************)
(* Claims about run_backtest (checked under SpecBacktest).                 *)
(***************************************************************************)
BacktestReturned ==
  /\ pc = "backtest"
  /\ ~Raised(ret)
  /\ "pnl" \in ret.cols

\* The signal of the row before row t of the input, 0 before the first row.
PrevSignal(t) == IF t = 1 THEN Zero ELSE Q(df.data["signal"][t - 1], 1)

\* The input cut after row t, with s as the signal of row t.
CutAt(t, s) ==
  SpreadSignalFrame(SubSeq(df.data["spread"], 1, t),
                    Append(SubSeq(df.data["signal"], 1, t - 1), s))

\* C3: no lookahead.  pnl_t = signal_{t-1} * spread_ret_t, and pnl_t and
\* cum_pnl_t are those of the table that keeps only the spread of rows <= t
\* and the signal of rows < t, whatever signal is put at row t: so two
\* tables that agree on that much agree on pnl_t and cum_pnl_t.
C3_NoLookahead ==
  BacktestReturned =>
    \A t \in 1..ret.len :
      /\ ret.data["pnl"][t] = FMul(PrevSignal(t), ret.data["spread_ret"][t])
      /\ \A s \in SignalVals :
           LET cut == run_backtest(CutAt(t, s), pad)
           IN  /\ cut.data["pnl"][t] = ret.data["pnl"][t]
               /\ cut.data["cum_pnl"][t] = ret.data["cum_pnl"][t]

\* A row whose own signal differs from the previous row's, and whose pnl is
\* the previous row's signal times a non-zero return.
C3_Witness ==
  /\ BacktestReturned
  /\ \E t \in 2..ret.len :
       /\ df.data["signal"][t] # df.data["signal"][t - 1]
       /\ df.data["signal"][t - 1] # 0
       /\ IsFin(ret.data["pnl"][t]) /\ ret.data["pnl"][t] # Zero
       /\ t < ret.len

\* C4: for every non-empty input, pnl and cum_pnl at row 0 are exactly 0.
C4_FirstRowZero ==
  (pc = "backtest" /\ ~Raised(ret) /\ ~Empty(df)) =>
    /\ ret.data["pnl"][1] = Zero
    /\ ret.data["cum_pnl"][1] = Zero

\* A single-row table that holds a position, and a longer one whose first
\* row holds a position on an undefined spread.
C4_Witness ==
  /\ BacktestReturned
  /\ df.data["signal"][1] # 0
  /\ ret.data["pnl"][1] = Zero
  /\ ret.len = 1 \/ IsNaN(df.data["spread"][1])

\* pnl_1 + ... + pnl_t, added left to right as doubles.
RECURSIVE PrefixSum(_, _)
PrefixSum(xs, t) == IF t = 0 THEN Zero ELSE FAdd(PrefixSum(xs, t - 1), xs[t])

\* pnl_1 + ... + pnl_t over the defined values only (Series.sum()).
RECURSIVE PrefixSumSkipNaN(_, _)
PrefixSumSkipNaN(xs, t) ==
  IF t = 0 THEN Zero
  ELSE FAdd(PrefixSumSkipNaN(xs, t - 1), IF IsNaN(xs[t]) THEN Zero ELSE xs[t])

\* C5: in every output cum_pnl is the prefix sum of pnl: cum_pnl_t =
\* pnl_0 + ... + pnl_t at every row t, under either reading of the sum (of
\* all values, or of the defined values only).
C5_CumPnlIsPrefixSum ==
  BacktestReturned =>
    \/ \A t \in 1..ret.len :
         ret.data["cum_pnl"][t] = PrefixSum(ret.data["pnl"], t)
    \/ \A t \in 1..ret.len :
         ret.data["cum_pnl"][t] = PrefixSumSkipNaN(ret.data["pnl"], t)

----------------------------------------------------------------------------
(***************************************************************************)
(* Claims about _single_run and the chain of stages (SpecPipeline).        *)
(***************************************************************************)
SingleRunReturned == pc = "single_run"

\* Some stage after prepare_spread raises on the processed table.
StageFails(processed) ==
  \/ Raised(generate_trade_signals(processed, entry_z, exit_z))
  \/ Raised(run_backtest(generate_trade_signals(processed, entry_z, exit_z), pad))
  \/ Raised(calculate_performance_metrics(
              run_backtest(generate_trade_signals(processed, entry_z, exit_z), pad)))

\* C9: _single_run never raises; it returns None when fewer than two rows
\* survive the warm-up, when entry_z <= exit_z, and when a stage fails;
\* otherwise it returns a record that carries the three arguments and whose
\* observations is the number of rows that survive the warm-up.
C9_SingleRunFailSoft ==
  SingleRunReturned =>
    /\ ~Raised(ret)
    /\ \A processed \in {prepare_spread(df, lookback)} :
         IF Raised(processed) THEN ret = None
         ELSE IF processed.len < 2 \/ FLe(entry_z, exit_z) \/ StageFails(processed)
           THEN ret = None
         ELSE /\ ret # None
              /\ ret.lookback = lookback
              /\ ret.entry_z = entry_z
              /\ ret.exit_z = exit_z
              /\ ret.observations = processed.len

\* A run that returns a record after the warm-up has dropped rows.
C9_Witness ==
  /\ SingleRunReturned
  /\ ret # None
  /\ ret.observations >= 2
  /\ ret.observations < df.len

\* The input is a two-column price table with fewer rows than the lookback,
\* and the thresholds are valid.
NoData == Cardinality(df.cols) = 2 /\ df.len < lookback /\ FLt(exit_z, entry_z)

\* C10: on a two-column price table with fewer rows than the lookback, the
\* four stages called in a chain all return without an error and the last
\* returns the default metrics record.
C10_NoDataChainCompletes ==
  NoData =>
    /\ pc \in {"spread", "signals", "backtest", "metrics"} => ~Raised(ret)
    /\ pc = "metrics" => ret = DefaultMetrics

----------------------------------------------------------------------------
(***************************************************************************)
(* Claims about grid_search (checked under SpecGrid and SpecGridLive).     *)
(***************************************************************************)
\* grid_search has returned a table.
GridReturned == pc = "done" /\ ~Raised(ret)

\* C6: every row of a table returned by grid_search has entry_z > exit_z,
\* observations >= min_obs and num_trades >= min_trades.
C6_RowsPassFilters ==
  GridReturned =>
    \A k \in 1..Len(ret.rows) :
      /\ FLt(ret.rows[k].exit_z, ret.rows[k].entry_z)
      /\ ret.rows[k].observations >= cfg.min_obs
      /\ ret.rows[k].num_trades >= cfg.min_trades

\* A returned table with a row, from a grid that holds a combination with
\* entry_z <= exit_z, a combination the observations filter removes and one
\* the trades filter removes.
C6_Witness ==
  /\ GridReturned
  /\ Len(ret.rows) > 0
  /\ \E k \in 1..Len(ParamCombinations(cfg)) :
       FLe(ParamCombinations(cfg)[k].ez, ParamCombinations(cfg)[k].xz)
  /\ \E k \in 1..Len(ParamCombinations(cfg)) :
       \E r \in {_single_run(df, ParamCombinations(cfg)[k].lb, ParamCombinations(cfg)[k].ez,
                             ParamCombinations(cfg)[k].xz, pad)} :
         r # None /\ r.observations < cfg.min_obs
  /\ \E k \in 1..Len(ParamCombinations(cfg)) :
       \E r \in {_single_run(df, ParamCombinations(cfg)[k].lb, ParamCombinations(cfg)[k].ez,
                             ParamCombinations(cfg)[k].xz, pad)} :
         r # None /\ r.observations >= cfg.min_obs /\ r.num_trades < cfg.min_trades

\* a >= b and a = b as the comparison of two Sharpe ratios.
SharpeGe(a, b) == ~IsNaN(a) /\ ~IsNaN(b) /\ ~SurdLt(a, b)
SharpeEq(a, b) == ~IsNaN(a) /\ ~IsNaN(b) /\ a = b

\* C7: the rows of a returned table are ordered by Sharpe ratio descending,
\* then total return descending, then maximum drawdown ascending, and the
\* rows without a Sharpe ratio come after all rows with one.
C7_RowsSorted ==
  GridReturned =>
    /\ \A k \in 1..(Len(ret.rows) - 1) :
         (~IsNaN(ret.rows[k].sharpe_ratio) /\ ~IsNaN(ret.rows[k + 1].sharpe_ratio)) =>
           /\ SharpeGe(ret.rows[k].sharpe_ratio, ret.rows[k + 1].sharpe_ratio)
           /\ SharpeEq(ret.rows[k].sharpe_ratio, ret.rows[k + 1].sharpe_ratio) =>
                /\ FLe(ret.rows[k + 1].total_return, ret.rows[k].total_return)
                /\ FEq(ret.rows[k].total_return, ret.rows[k + 1].total_return) =>
                     FLe(ret.rows[k].max_drawdown, ret.rows[k + 1].max_drawdown)
    /\ \A j, k \in 1..Len(ret.rows) :
         (IsNaN(ret.rows[j].sharpe_ratio) /\ ~IsNaN(ret.rows[k].sharpe_ratio)) => k < j

\* The values of a list.
Range(seq) == {seq[k] : k \in 1..Len(seq)}

\* Every combination of a lookback, an entry threshold and an exit threshold
\* of the grid.
AllCombinations ==
  {[lb |-> l, ez |-> e, xz |-> x] :
     l \in Range(cfg.lookbacks), e \in Range(cfg.entry_zs), x \in Range(cfg.exit_zs)}

\* The combinations that must have a row: entry_z > exit_z, a run that does
\* not fail, and both thresholds met.
Qualifying ==
  {p \in AllCombinations :
     /\ FLt(p.xz, p.ez)
     /\ \E r \in {_single_run(df, p.lb, p.ez, p.xz, pad)} :
          /\ r # None
          /\ r.observations >= cfg.min_obs
          /\ r.num_trades >= cfg.min_trades}

\* The price table is non-empty with two columns and no list of the grid
\* holds a value twice.
GridInput ==
  /\ Cardinality(df.cols) = 2
  /\ ~Empty(df)
  /\ Cardinality(Range(cfg.lookbacks)) = Len(cfg.lookbacks)
  /\ Cardinality(Range(cfg.entry_zs)) = Len(cfg.entry_zs)
  /\ Cardinality(Range(cfg.exit_zs)) = Len(cfg.exit_zs)

\* grid_search has returned a table, the loop has been through every
\* combination, and the table holds one row for each qualifying combination
\* and nothing else.
GridComplete ==
  /\ GridReturned
  /\ idx = Cardinality(AllCombinations) + 1
  /\ Len(ret.rows) = Cardinality(Qualifying)
  /\ {[lb |-> ret.rows[k].lookback, ez |-> ret.rows[k].entry_z, xz |-> ret.rows[k].exit_z] :
        k \in 1..Len(ret.rows)} = Qualifying

\* C8: on a non-empty two-column price table and a grid without duplicate
\* values, grid_search terminates after it has been through every
\* combination, and what it returns holds exactly one row for each
\* combination with entry_z > exit_z whose run is not None and meets both
\* thresholds; a combination that fails costs only its own row.
C8_FailSoftAndComplete == GridInput => <>[]GridComplete

\* A completed sweep that returns rows although the run of one combination
\* with entry_z > exit_z failed.
C8_Witness ==
  /\ GridInput
  /\ GridComplete
  /\ Len(ret.rows) > 0
  /\ \E p \in AllCombinations :
       FLt(p.xz, p.ez) /\ _single_run(df, p.lb, p.ez, p.xz, pad) = None

\* C11: on a two-column price table of any length, a table that grid_search
\* returns with no rows carries the canonical columns; it is never a table
\* without columns.
C11_EmptyResultHasSchema ==
  (GridReturned /\ Cardinality(df.cols) = 2 /\ Len(ret.rows) = 0)
    => ret.cols = CanonicalColumns

----------------------------------------------------------------------------
(***************************************************************************)
(* Claims about prepare_spread                                             *)
(***************************************************************************)
\* prepare_spread has returned a table that went through the computation.
SpreadReturned == pc = "spread" /\ ~Raised(ret) /\ "zscore" \in ret.cols

\* C13: on a gap-free two-column table of n rows and a positive lookback
\* L < n, prepare_spread returns exactly n - (L - 1) rows, which are the
\* input rows from index L - 1 onward, in order.
C13_WarmupRowsOnly ==
  (pc = "spread" /\ Cardinality(df.cols) = 2 /\ lookback >= 1 /\ lookback < df.len)
    => /\ ~Raised(ret)
       /\ ret.len = df.len - (lookback - 1)
       /\ ret.index = [i \in 1..(df.len - (lookback - 1)) |-> df.index[i + lookback - 1]]
       /\ \A c \in df.cols :
            ret.data[c] = [i \in 1..(df.len - (lookback - 1)) |-> df.data[c][i + lookback - 1]]

\* C14: every row prepare_spread returns has a defined zscore, and the
\* zscore is 0 on every returned row whose spread_std is 0.
C14_ZScoreDefined ==
  SpreadReturned =>
    \A i \in 1..ret.len :
      /\ ~IsNaN(ret.data["zscore"][i])
      /\ (ret.data["spread_std"][i] = Surd(0, 0, 1)
            => ret.data["zscore"][i] = Surd(0, 0, 1))

\* A returned table with a row of zero spread_std next to a row whose zscore
\* is not 0.
C14_Witness ==
  /\ SpreadReturned
  /\ \E i \in 1..ret.len :
       ret.data["spread_std"][i] = Surd(0, 0, 1) /\ ret.data["zscore"][i] = Surd(0, 0, 1)
  /\ \E i \in 1..ret.len :
       ~IsNaN(ret.data["zscore"][i]) /\ ret.data["zscore"][i].s # 0

----------------------------------------------------------------------------
(***************************************************************************)
(* Claims about best_config                                                *)
(***************************************************************************)
\* best_config has returned; local holds the table its grid_search returned.
BestReturned == pc = "best" /\ ~Raised(ret)

\* C12: best_config returns the empty record exactly when grid_search on
\* the same arguments returns a table with no rows; otherwise it returns the
\* first row of that table, and no row of the table has a strictly greater
\* Sharpe ratio.
C12_BestIsFirstRow ==
  BestReturned =>
    /\ local = grid_search(df, cfg, pad)
    /\ (ret = EmptyDict) <=> (Len(local.rows) = 0)
    /\ Len(local.rows) > 0 =>
         /\ ret = local.rows[1]
         /\ \A k \in 1..Len(local.rows) :
              ~SurdLt(ret.sharpe_ratio, local.rows[k].sharpe_ratio)

\* A table of at least two rows whose last row has a smaller Sharpe ratio
\* than the record best_config returned.
C12_Witness ==
  /\ BestReturned
  /\ Len(local.rows) >= 2
  /\ ret = local.rows[1]
  /\ SurdLt(local.rows[Len(local.rows)].sharpe_ratio, ret.sharpe_ratio)

----------------------------------------------------------------------------
(***************************************************************************)
(* Claims about walk_forward_validation                                    *)
(***************************************************************************)
\* The split has been made (local keeps it until the call returns).
WfSplitMade == pc \in {"train", "test", "done"} /\ local # Nil

\* The rows a+1 .. b of the table the caller passed, written out.
RowsOf(t, a, b) ==
  [cols  |-> t.cols,
   len   |-> b - a,
   index |-> [i \in 1..(b - a) |-> t.index[a + i]],
   data  |-> [c \in t.cols |-> [i \in 1..(b - a) |-> t.data[c][a + i]]]]

\* C15: the split index is k = floor(n * train_fraction); the training rows
\* are rows 0 .. k-1 and the test rows are rows k .. n-1 of the input, so
\* the two sets are disjoint, cover every row, and every training row comes
\* before every test row.
C15_SplitIsChronological ==
  WfSplitMade =>
    LET k == local.split_idx
        n == df.len
        train == {local.df_train.index[i] : i \in 1..local.df_train.len}
        test  == {local.df_test.index[i] : i \in 1..local.df_test.len}
    IN /\ k * train_fraction.d <= n * train_fraction.n
       /\ n * train_fraction.n < (k + 1) * train_fraction.d
       /\ local.df_train = RowsOf(df, 0, k)
       /\ local.df_test = RowsOf(df, k, n)
       /\ train \cap test = {}
       /\ train \cup test = {df.index[i] : i \in 1..n}
       /\ \A i \in train, j \in test : i < j

\* A split of a table whose length times the fraction is not an integer,
\* with rows on both sides.
C15_Witness ==
  /\ WfSplitMade
  /\ (df.len * train_fraction.n) % train_fraction.d # 0
  /\ local.df_train.len >= 2
  /\ local.df_test.len >= 2

\* train_best exists: the call is at the test run or beyond it.
WfTrained == WfSplitMade /\ "train_best" \in DOMAIN local

\* The tables of as many rows as t that agree with t on the rows before k.
SameTrainingRows(t, k) ==
  {u \in WfTables : /\ u.cols = t.cols
                    /\ u.len = t.len
                    /\ \A c \in t.cols : \A i \in 1..k : u.data[c][i] = t.data[c][i]}

\* C16: the configuration run on the test rows is the best one of the
\* training rows.  train_best depends on the training rows only: a call on
\* a table with the same training rows and other test rows has the same
\* train_best.  The test metrics are those of one _single_run on the test
\* rows with train_best's parameters, which they carry.
C16_NoLeakage ==
  /\ (pc = "test" /\ WfTrained) =>
       \A u \in SameTrainingRows(df, SplitIdx(df.len, train_fraction)) :
         best_config(TrainRows(u, train_fraction), cfg, pad) = local.train_best
  /\ (pc = "done" /\ WfTrained /\ ~Raised(ret)) =>
       /\ ret.train_best = local.train_best
       /\ ret.test_metrics \in
            {EmptyDict,
             _single_run(RowsOf(df, local.split_idx, df.len), local.train_best.lookback,
                         local.train_best.entry_z, local.train_best.exit_z, pad)}
       /\ ret.test_metrics # EmptyDict =>
            /\ ret.test_metrics.lookback = ret.train_best.lookback
            /\ ret.test_metrics.entry_z = ret.train_best.entry_z
            /\ ret.test_metrics.exit_z = ret.train_best.exit_z

\* A call that returned test metrics, on a table of which another table
\* with the same training rows has another test result.
C16_Witness ==
  /\ pc = "done" /\ WfTrained /\ ~Raised(ret)
  /\ ret.test_metrics # EmptyDict
  /\ \E u \in SameTrainingRows(df, local.split_idx) :
       TestRun(TestRows(u, train_fraction), local.train_best, pad) # ret.test_metrics

\* walk_forward_validation has returned a dictionary.
WfReturned == pc = "done" /\ ~Raised(ret) /\ "sharpe_degradation" \in DOMAIN ret

\* d is the value (a - b) / |a| * 100, for finite surds a # 0 and b:
\* d = plus - minus with plus * |a| = 100 * a and minus * |a| = 100 * b.
IsDegradationOf(d, a, b) ==
  /\ d.k = "fin"
  /\ d.plus = SInt(100 * a.s)
  /\ d.minus.s = b.s
  /\ QMul(Q(d.minus.n, d.minus.d), Q(a.n, a.d)) = QMul(Q(10000, 1), Q(b.n, b.d))

\* C17: sharpe_degradation is (train_sharpe - test_sharpe) / |train_sharpe|
\* * 100 when both runs gave a result and train_sharpe is defined and not
\* 0; it is undefined when train_sharpe is 0 or undefined, when no training
\* configuration survives and when the test run returns None.
C17_Degradation ==
  WfReturned =>
    LET a == ret.train_sharpe
        b == ret.test_sharpe
        d == ret.sharpe_degradation
    IN /\ ret.train_best = EmptyDict => IsNaN(d) /\ IsNaN(a)
       /\ ret.train_best # EmptyDict => a = ret.train_best.sharpe_ratio
       /\ ret.test_metrics = EmptyDict => IsNaN(d) /\ IsNaN(b)
       /\ ret.test_metrics # EmptyDict => b = ret.test_metrics.sharpe_ratio
       /\ (IsNaN(a) \/ a.s = 0) => IsNaN(d)
       /\ (ret.test_metrics # EmptyDict /\ ~IsNaN(a) /\ a.s # 0) =>
            IF IsNaN(b) THEN IsNaN(d) ELSE IsDegradationOf(d, a, b)

\* Both runs gave a defined Sharpe ratio that is not 0, and the two differ.
C17_Witness ==
  /\ WfReturned
  /\ ret.test_metrics # EmptyDict
  /\ ~IsNaN(ret.train_sharpe) /\ ret.train_sharpe.s # 0
  /\ ~IsNaN(ret.test_sharpe) /\ ret.test_sharpe.s # 0
  /\ ret.test_sharpe # ret.train_sharpe
  /\ IsDegradationOf(ret.sharpe_degradation, ret.train_sharpe, ret.test_sharpe)

\* A call whose training Sharpe ratio is 0 and whose test run gave a result.
C17_ZeroTrainSharpe ==
  /\ WfReturned
  /\ ret.test_metrics # EmptyDict
  /\ ~IsNaN(ret.train_sharpe) /\ ret.train_sharpe.s = 0

----------------------------------------------------------------------------
(***************************************************************************)
(* Claims about robustness_analysis                                        *)
(***************************************************************************)
\* The loop has made at least one pass; local holds the segment of pass idx.
RobPassed == pc \in {"loop", "done"} /\ ~Raised(ret) /\ idx >= 1

\* What C18 says of the segment of the last pass and of the rows so far:
\* with p = floor(n / n_periods), segment i < n_periods is rows (i-1)p ..
\* ip-1 and the last one is rows (n_periods-1)p .. n-1; the rows have
\* strictly increasing period numbers in 1..i, and there is a row for
\* segment i exactly when the segment has a configuration.
C18_Segment ==
  RobPassed =>
    LET n == df.len
        p == local.period_size
        best == best_config(RowsOf(df, local.start_idx, local.end_idx), cfg, pad)
        rows == IF pc = "done" THEN ret.rows ELSE records
    IN /\ p * n_periods <= n /\ n < (p + 1) * n_periods
       /\ local.start_idx = (idx - 1) * p
       /\ local.end_idx = IF idx < n_periods THEN idx * p ELSE n
       /\ local.df_period = RowsOf(df, local.start_idx, local.end_idx)
       /\ rows = records
       /\ Len(rows) <= idx /\ idx <= n_periods
       /\ \A k \in 1..Len(rows) :
            /\ rows[k].period \in 1..idx
            /\ k > 1 => rows[k - 1].period < rows[k].period
       /\ (best = EmptyDict) <=> (\A k \in 1..Len(rows) : rows[k].period # idx)
       /\ pc = "done" => idx = n_periods

\* C18: robustness_analysis with n_periods >= 2 cuts the n rows into
\* n_periods segments that are contiguous, disjoint, chronological and cover
\* every row once: the first starts at row 0, each starts where the one
\* before it ended, and the last ends at row n.  The result has at most
\* n_periods rows with strictly increasing period numbers in 1..n_periods,
\* and a segment without a valid configuration has no row.
C18_SegmentsPartition ==
  /\ []C18_Segment
  /\ [][(pc = "loop" /\ idx' = idx + 1) =>
          /\ local'.start_idx = (IF idx = 0 THEN 0 ELSE local.end_idx)
          /\ local'.start_idx <= local'.end_idx]_vars
  /\ [][(pc = "loop" /\ pc' = "done" /\ ~Raised(ret')) =>
          /\ local.end_idx = df.len
          /\ Len(ret'.rows) <= n_periods]_vars

\* A finished call on a table whose length is not a multiple of n_periods,
\* in which one segment has a row and another has none.
C18_Witness ==
  /\ pc = "done" /\ ~Raised(ret) /\ idx = n_periods
  /\ df.len % n_periods # 0
  /\ Len(ret.rows) >= 1
  /\ Len(ret.rows) < n_periods
  /\ local.end_idx = df.len

----------------------------------------------------------------------------
(***************************************************************************)
(* Claims about transaction_cost_analysis                                  *)
(***************************************************************************)
\* transaction_cost_analysis has returned a table.
CostReturned == pc = "done" /\ ~Raised(ret)

\* The after-cost values C19 gives for the baseline row r at the level c.
AdjustedDrag(r, c) == Q(r.num_trades * 2 * c, 10000)

AdjustedReturn(r, c) == FSub(r.total_return, AdjustedDrag(r, c))

AdjustedSharpe(r, c) ==
  IF ~FEq(r.total_return, Zero)
    THEN SurdMul(r.sharpe_ratio, FDiv(AdjustedReturn(r, c), r.total_return))
  ELSE Surd(0, 0, 1)

\* r1 comes strictly before r2 by adjusted Sharpe ratio descending, then
\* adjusted return descending, undefined values last.
AdjustedBefore(r1, r2, c) ==
  \/ SharpeOrder(AdjustedSharpe(r1, c), AdjustedSharpe(r2, c)) = -1
  \/ /\ SharpeOrder(AdjustedSharpe(r1, c), AdjustedSharpe(r2, c)) = 0
     /\ DescOrder(AdjustedReturn(r1, c), AdjustedReturn(r2, c)) = -1

\* row is the row of the level c: it reports a baseline row that no
\* baseline row comes before, with that row's after-cost values.
IsCostRow(row, c, rows) ==
  /\ row.cost_bps = c
  /\ c = 0 => row.cost_drag = Zero
  /\ \E j \in 1..Len(rows) :
       /\ row.lookback = rows[j].lookback
       /\ row.entry_z = rows[j].entry_z
       /\ row.exit_z = rows[j].exit_z
       /\ row.num_trades = rows[j].num_trades
       /\ row.cost_drag = AdjustedDrag(rows[j], c)
       /\ row.total_return = AdjustedReturn(rows[j], c)
       /\ row.sharpe_ratio = AdjustedSharpe(rows[j], c)
       /\ \A m \in 1..Len(rows) : ~AdjustedBefore(rows[m], rows[j], c)

\* C19: transaction_cost_analysis runs grid_search once; on an empty
\* baseline it returns an empty table; otherwise it returns one row for each
\* cost level, in the order of cost_bps_range, and the row of level c is the
\* baseline row that is first by (adjusted Sharpe ratio descending, adjusted
\* return descending), where cost_drag = num_trades * 2 * c / 10000,
\* adjusted return = total_return - cost_drag and adjusted Sharpe ratio =
\* sharpe_ratio * adjusted return / total_return if total_return # 0 else 0;
\* at c = 0 the cost_drag is 0.
C19_OneRowPerCostLevel ==
  CostReturned =>
    LET baseline == grid_search(df, cfg, pad)
    IN IF NoRows(baseline) THEN ret = EmptyResult
       ELSE /\ local.baseline_results = baseline
            /\ Len(ret.rows) = Len(cost_bps_range)
            /\ \A k \in 1..Len(ret.rows) :
                 IsCostRow(ret.rows[k], cost_bps_range[k], baseline.rows)

\* A call with several cost levels in which the cost changes the reported
\* configuration and the level 0 has a cost_drag of 0.
C19_Witness ==
  /\ CostReturned
  /\ Len(cost_bps_range) >= 2
  /\ Len(ret.rows) = Len(cost_bps_range)
  /\ \E i, j \in 1..Len(ret.rows) :
       /\ ret.rows[i].cost_bps = 0 /\ ret.rows[i].cost_drag = Zero
       /\ FLt(Zero, ret.rows[j].cost_drag)
       /\ <<ret.rows[i].lookback, ret.rows[i].entry_z, ret.rows[i].exit_z>>
            # <<ret.rows[j].lookback, ret.rows[j].entry_z, ret.rows[j].exit_z>>

\* a >= b on surds (false when either is NaN).
SurdGe(a, b) == ~IsNaN(a) /\ ~IsNaN(b) /\ ~SurdLt(a, b)

\* C20: the reported after-cost Sharpe ratio does not increase with the
\* cost: for non-negative cost levels c1 <= c2 of cost_bps_range, the
\* sharpe_ratio reported at c1 is greater than or equal to the one reported
\* at c2.
C20_SharpeMonotoneInCost ==
  CostReturned =>
    \A i, j \in 1..Len(ret.rows) :
      (0 <= ret.rows[i].cost_bps /\ ret.rows[i].cost_bps <= ret.rows[j].cost_bps)
        => SurdGe(ret.rows[i].sharpe_ratio, ret.rows[j].sharpe_ratio)

----------------------------------------------------------------------------
(***************************************************************************)
(* Further claims about run_backtest                                       *)
(***************************************************************************)
\* C24: a flat position earns nothing.  For every spread series, with zero
\* and undefined spreads too, pnl_t = 0 at every row whose previous-row
\* signal is 0; an all-zero signal column gives pnl = 0 and cum_pnl = 0 on
\* every row.
C24_FlatEarnsNothing ==
  BacktestReturned =>
    /\ \A t \in 1..ret.len : PrevSignal(t) = Zero => ret.data["pnl"][t] = Zero
    /\ (\A t \in 1..ret.len : df.data["signal"][t] = 0) =>
         \A t \in 1..ret.len :
           ret.data["pnl"][t] = Zero /\ ret.data["cum_pnl"][t] = Zero

----------------------------------------------------------------------------
(***************************************************************************)
(* Claims about calculate_performance_metrics                              *)
(***************************************************************************)
\* calculate_performance_metrics has returned the metrics of a table with rows.
MetricsReturned == pc = "metrics" /\ ~Raised(ret) /\ ~Empty(df)

\* The sum of the values of xs at the rows in S.
RECURSIVE SumOver(_, _)
SumOver(xs, S) ==
  IF S = {} THEN Zero
  ELSE LET t == CHOOSE t \in S : TRUE IN FAdd(xs[t], SumOver(xs, S \ {t}))

\* The rows of positive and of negative pnl.
PositiveRows == {t \in 1..df.len : FLt(Zero, df.data["pnl"][t])}

NegativeRows == {t \in 1..df.len : FLt(df.data["pnl"][t], Zero)}

\* C22: on a non-empty table profit_factor is sum(positive pnl) /
\* |sum(negative pnl)| if the sum of the negative pnl is not 0 (so 0 with
\* losses and no wins), +infinity if there are no losses and some positive
\* pnl, and NaN if there is neither positive nor negative pnl.
C22_ProfitFactorCases ==
  MetricsReturned =>
    LET wins   == SumOver(df.data["pnl"], PositiveRows)
        losses == SumOver(df.data["pnl"], NegativeRows)
    IN IF ~FEq(losses, Zero)
         THEN /\ ret.profit_factor = FDiv(wins, FNeg(losses))
              /\ PositiveRows = {} => ret.profit_factor = Zero
       ELSE IF PositiveRows # {} THEN ret.profit_factor = PInf
       ELSE ret.profit_factor = NaN

\* Metrics of a table with wins and losses whose profit factor is neither
\* 0 nor 1.
C22_Witness ==
  /\ MetricsReturned
  /\ PositiveRows # {} /\ NegativeRows # {}
  /\ IsFin(ret.profit_factor)
  /\ ret.profit_factor \notin {Zero, Q(1, 1)}

\* C23: num_trades is the number of rows t >= 1 whose signal differs from
\* the signal of row t - 1: the first row never counts, a flip from +1 to
\* -1 counts once, a constant signal gives 0.
C23_NumTrades ==
  (pc = "metrics" /\ ~Raised(ret)) =>
    ret.num_trades =
      Cardinality({t \in 2..df.len : df.data["signal"][t] # df.data["signal"][t - 1]})

\* A table that holds a position at row 0 and flips it from +1 to -1.
C23_Witness ==
  /\ pc = "metrics" /\ ~Raised(ret)
  /\ df.len >= 2
  /\ df.data["signal"][1] = 1
  /\ df.data["signal"][2] = -1
  /\ ret.num_trades >= 1

----------------------------------------------------------------------------
(***************************************************************************)
(* Further claims about generate_trade_signals                             *)
(***************************************************************************)
\* The z-score table of the first t rows of the input.
FirstRows(t) == Frame1("zscore", SubSeq(df.data["zscore"], 1, t))

\* The input with the z-score v at its last row.
WithLastRow(v) ==
  Frame1("zscore", Append(SubSeq(df.data["zscore"], 1, df.len - 1), v))

\* C28: the signal at row t is determined by the z-scores of rows 0..t.
\* The call on the first t rows alone gives the signals of rows 0..t, so two
\* z-score sequences that agree on rows 0..t have the same signals there; and
\* another z-score at the last row changes no earlier signal.
C28_SignalCausal ==
  (SignalsReturned /\ ~Empty(df)) =>
    /\ \A t \in 1..df.len :
         generate_trade_signals(FirstRows(t), entry_z, exit_z).data["signal"]
           = SubSeq(ret.data["signal"], 1, t)
    /\ \A v \in ZVals :
         SubSeq(generate_trade_signals(WithLastRow(v), entry_z, exit_z).data["signal"],
                1, df.len - 1)
           = SubSeq(ret.data["signal"], 1, df.len - 1)

\* A flat row that is followed by an entry: the later row would reach it if
\* signals were filled from the rows after.
C28_Witness ==
  /\ SignalsReturned
  /\ df.len >= 3
  /\ \E t \in 1..(df.len - 1) :
       /\ ret.data["signal"][t] = 0
       /\ ret.data["signal"][t + 1] # 0
       /\ SGt(SAbs(df.data["zscore"][t]), exit_z)


----------------------------------------------------------------------------
\* Further claims about transaction_cost_analysis

\* C30: at the cost level 0 transaction_cost_analysis reports the
\* configuration of the first row of the baseline grid_search (the one
\* best_config selects), with that row's sharpe_ratio and total_return.
C30_ZeroCostIsBestConfig ==
  (CostReturned /\ ret # EmptyResult) =>
    \A k \in 1..Len(ret.rows) :
      ret.rows[k].cost_bps = 0 =>
        LET best == BestRow(local.baseline_results)
        IN /\ ret.rows[k].lookback = best.lookback
           /\ ret.rows[k].entry_z = best.entry_z
           /\ ret.rows[k].exit_z = best.exit_z
           /\ ret.rows[k].sharpe_ratio = best.sharpe_ratio
           /\ ret.rows[k].total_return = best.total_return

----------------------------------------------------------------------------
\* Further claims about grid_search

\* s in reverse order.
Reversed(s) == [k \in 1..Len(s) |-> s[Len(s) + 1 - k]]

\* The grids with the values of c, each list in its order or reversed.
Reorderings(c) ==
  {[c EXCEPT !.lookbacks = ls, !.entry_zs = es, !.exit_zs = xs] :
     ls \in {c.lookbacks, Reversed(c.lookbacks)},
     es \in {c.entry_zs, Reversed(c.entry_zs)},
     xs \in {c.exit_zs, Reversed(c.exit_zs)}}

\* C26: the rows grid_search returns do not depend on the order of the
\* values inside lookbacks, entry_zs and exit_zs: the call with the lists
\* reordered returns the same sequence of rows.
C26_OrderOfListsIrrelevant ==
  GridReturned =>
    \A c \in Reorderings(cfg) : grid_search(df, c, pad) = ret

----------------------------------------------------------------------------
\* Claims about the stages as calls on a caller's table

\* A stage has returned a table.
StageReturned == pc # "start" /\ ~Raised(ret)

\* The columns run_backtest adds.
BacktestAdds == {"spread_ret", "pnl", "cum_pnl"}

\* The columns of a that are not in cs are the columns of b that are not in
\* cs, with the same values, rows and index.
SameExcept(a, b, cs) ==
  /\ a.cols \ cs = b.cols \ cs
  /\ a.len = b.len
  /\ a.index = b.index
  /\ \A c \in a.cols \ cs : a.data[c] = b.data[c]

\* The caller's table is after the call what it was before it.
InputUnchanged == pc # "start" => local.after = local.before

FirstOutput == local.before

\* C25: run_backtest applied to its own output, or to the spread and signal
\* columns of its own output, returns the same spread_ret, pnl and cum_pnl
\* columns; generate_trade_signals applied to its own output with the same
\* thresholds returns the same signal column.
C25_Idempotent ==
  /\ pc \in {"backtest_again", "backtest_core"} =>
       /\ ~Raised(ret)
       /\ ret.cols \cap BacktestAdds = FirstOutput.cols \cap BacktestAdds
       /\ \A c \in ret.cols \cap BacktestAdds : ret.data[c] = FirstOutput.data[c]
  /\ pc = "signals_again" =>
       /\ ~Raised(ret)
       /\ ret.cols \cap {"signal"} = FirstOutput.cols \cap {"signal"}
       /\ \A c \in ret.cols \cap {"signal"} : ret.data[c] = FirstOutput.data[c]

\* run_backtest has run on the columns of its own output, for a table with
\* a position held and a pnl that is not zero.
C25_Witness ==
  /\ pc = "backtest_core"
  /\ ~Raised(ret)
  /\ ret.len >= 3
  /\ \E k \in 1..ret.len : IsFin(ret.data["pnl"][k]) /\ ~FEq(ret.data["pnl"][k], Zero)
  /\ ret.data["pnl"] = FirstOutput.data["pnl"]

----------------------------------------------------------------------------
\* Claims about identify_stable_regions

StableReturned == pc = "stable" /\ ~Raised(ret)

\* The positions of the rows analysed: the first min(top_n, number of rows).
Analysed ==
  1..(IF top_n < Len(results_df.rows) THEN top_n ELSE Len(results_df.rows))

\* The tolerance in force.
ToleranceOf(c) == IF tolerance = None THEN DefaultTolerance[c] ELSE tolerance[c]

\* <<lo, hi>> are the least and the greatest of the values vals.
IsRangeOf(lo, hi, vals) ==
  /\ lo \in vals /\ hi \in vals
  /\ \A v \in vals : FLe(lo, v) /\ FLe(v, hi)

\* C21: on a table with rows and top_n >= 1, identify_stable_regions returns
\* without raising, analyses the first min(top_n, number of rows) rows,
\* reports for each parameter the (min, max) over those rows and a flag that
\* is true iff max - min <= the tolerance of the parameter (by default
\* lookback 15, entry_z 0.5, exit_z 0.25), and overall_stable is true iff
\* the three flags are; on an empty table it returns overall_stable = False
\* and median_params = {} without raising.
C21_StableRegions ==
  /\ (pc = "stable" /\ NoRows(results_df)) =>
       /\ ~Raised(ret)
       /\ ret.overall_stable = FALSE
       /\ DOMAIN ret.median_params = {}
  /\ (pc = "stable" /\ ~NoRows(results_df) /\ top_n >= 1) =>
       /\ ~Raised(ret)
       /\ ret.top_n_analysed = Cardinality(Analysed)
       /\ IsRangeOf(Q(ret.lookback_range[1], 1), Q(ret.lookback_range[2], 1),
                    {Q(results_df.rows[k].lookback, 1) : k \in Analysed})
       /\ IsRangeOf(ret.entry_z_range[1], ret.entry_z_range[2],
                    {results_df.rows[k].entry_z : k \in Analysed})
       /\ IsRangeOf(ret.exit_z_range[1], ret.exit_z_range[2],
                    {results_df.rows[k].exit_z : k \in Analysed})
       /\ ret.lookback_stable <=>
            ret.lookback_range[2] - ret.lookback_range[1] <= IntOf(ToleranceOf("lookback"))
       /\ ret.entry_z_stable <=>
            FLe(FSub(ret.entry_z_range[2], ret.entry_z_range[1]), ToleranceOf("entry_z"))
       /\ ret.exit_z_stable <=>
            FLe(FSub(ret.exit_z_range[2], ret.exit_z_range[1]), ToleranceOf("exit_z"))
       /\ ret.overall_stable <=>
            (ret.lookback_stable /\ ret.entry_z_stable /\ ret.exit_z_stable)

\* A call with the default tolerance that analyses fewer rows than the
\* table has, a row left out that would have changed a range, one
\* parameter exactly at its tolerance and another beyond it.
C21_Witness ==
  /\ StableReturned /\ ~NoRows(results_df) /\ tolerance = None
  /\ top_n >= 1 /\ top_n < Len(results_df.rows)
  /\ \E k \in (1..Len(results_df.rows)) \ Analysed :
       results_df.rows[k].lookback > ret.lookback_range[2]
  /\ ret.lookback_range[2] - ret.lookback_range[1] = 15 /\ ret.lookback_stable
  /\ ~ret.entry_z_stable /\ ~ret.overall_stable

\* C29: the median_params of identify_stable_regions lie inside the
\* reported ranges, and when every analysed row has entry_z > exit_z the
\* median entry_z is strictly greater than the median exit_z.
C29_MedianIsValid ==
  (StableReturned /\ ~NoRows(results_df) /\ top_n >= 1) =>
    /\ ret.lookback_range[1] <= ret.median_params.lookback
    /\ ret.median_params.lookback <= ret.lookback_range[2]
    /\ FLe(ret.entry_z_range[1], ret.median_params.entry_z)
    /\ FLe(ret.median_params.entry_z, ret.entry_z_range[2])
    /\ FLe(ret.exit_z_range[1], ret.median_params.exit_z)
    /\ FLe(ret.median_params.exit_z, ret.exit_z_range[2])
    /\ (\A k \in Analysed : FLt(results_df.rows[k].exit_z, results_df.rows[k].entry_z))
         => FLt(ret.median_params.exit_z, ret.median_params.entry_z)

\* An even number of rows analysed, each with entry_z > exit_z, whose
\* lookback median is truncated and whose median entry_z and exit_z are
\* not values of any row.
C29_Witness ==
  /\ StableReturned /\ ~NoRows(results_df)
  /\ Cardinality(Analysed) = 2
  /\ \A k \in Analysed : FLt(results_df.rows[k].exit_z, results_df.rows[k].entry_z)
  /\ ret.lookback_range = <<35, 36>> /\ ret.median_params.lookback = 35
  /\ \A k \in Analysed :
       /\ results_df.rows[k].entry_z # ret.median_params.entry_z
       /\ results_df.rows[k].exit_z # ret.median_params.exit_z

============================================================================
